---------------------------- MODULE Spec2Model ----------------------------
(***************************************************************************)
(* Content store of the OOK Fazana web server (src/server.js): the startup *)
(* migration of the results/documents tables, the table initialisation,   *)
(* and the results request handlers running against the MySQL store.      *)
(***************************************************************************)
EXTENDS Integers, Sequences, FiniteSets, TLC

(***************************************************************************)
(* Bounds of the model.                                                    *)
(***************************************************************************)
MaxRuns == 2        \* process startups against the same database
MaxFaults == 1      \* store statements that fail during startup (connectivity loss)
MaxId == 2          \* rows one table generation can be given an id for
MaxClock == 1       \* ticks of CURRENT_TIMESTAMP
MaxReq == 2         \* requests in flight at once
MaxRequests == 2    \* requests received in one behaviour
MaxRows == 3        \* rows a table holds when its list is read

Categories == {"kadetkinje", "mini-odbojka"}
Years == {"2024"}
Descriptions == {"A", "B"}

\* a value JavaScript reads as undefined (a form field or file that is absent)
Undefined == "undefined"

\* !v of a form field: the field is absent or the empty string
Falsy(v) == v \in {Undefined, ""}

\* multer limits.fileSize: 10 * 1024 * 1024 bytes
FileSizeLimit == 10485760

\* the image files a request can carry: buffer, originalname, mimetype (type and
\* subtype, so that mimetype.startsWith('image/') is a test of the type) and size
FileOne == [buffer |-> "bytes1", originalname |-> "one.png",
            mimetype |-> <<"image", "png">>, size |-> 1024]
FileTwo == [buffer |-> "bytes2", originalname |-> "two.jpg",
            mimetype |-> <<"image", "jpeg">>, size |-> 2048]
Files == {FileOne, FileTwo}

\* a PDF, and an image above the size limit
PdfFile == [buffer |-> "bytes3", originalname |-> "three.pdf",
            mimetype |-> <<"application", "pdf">>, size |-> 1024]
BigFile == [buffer |-> "bytes4", originalname |-> "four.png",
            mimetype |-> <<"image", "png">>, size |-> FileSizeLimit + 1]

\* the PDF an update of a document carries
PdfTwo == [buffer |-> "bytes6", originalname |-> "six.pdf",
           mimetype |-> <<"application", "pdf">>, size |-> 2048]

\* a PDF above the size limit
BigPdf == [buffer |-> "bytes5", originalname |-> "five.pdf",
           mimetype |-> <<"application", "pdf">>, size |-> FileSizeLimit + 1]

\* req.file when the request carries no file
NoFile == [buffer |-> Undefined, originalname |-> Undefined,
           mimetype |-> <<Undefined, Undefined>>, size |-> 0]

VARIABLES
    pc,               \* position of the process in startServer
    runNo,            \* number of the current startup
    faults,           \* store statements that have failed so far
    migrationError,   \* the error the catch block of migrateTables caught in this
                      \* startup: none, connection, table_exists
    migrationDDL,     \* migrateTables issued a DDL statement in this startup
    resultsLayout,    \* column layout of table results: none, legacy, new
    resultsNew,       \* table results_new exists
    documentsLayout,  \* column layout of table documents
    documentsNew,     \* table documents_new exists
    adminTable,       \* table admin_users exists
    adminUsers,       \* rows of admin_users
    results,          \* rows of table results
    documents,        \* rows of table documents
    resultsAutoInc,   \* AUTO_INCREMENT counter of table results
    documentsAutoInc, \* AUTO_INCREMENT counter of table documents
    clock,            \* the time: CURRENT_TIMESTAMP of the store, Date.now() of jwt
    reqs,             \* requests waiting for the store, by slot
    served,           \* requests received so far
    resp,             \* the response sent last
    deleted           \* history: the ids whose DELETE was answered 200, by table

dbVars == <<resultsLayout, resultsNew, documentsLayout, documentsNew, adminTable,
            adminUsers, results, documents, resultsAutoInc, documentsAutoInc>>
reqVars == <<reqs, served, resp, deleted>>
vars == <<pc, runNo, faults, migrationError, migrationDDL, dbVars, clock, reqVars>>

Layouts == {"none", "legacy", "new"}

(***************************************************************************)
(* Column layouts.  INFORMATION_SCHEMA.COLUMNS of a table that does not    *)
(* exist is empty.                                                         *)
(***************************************************************************)
ResultsColumns(layout) ==
    CASE layout = "legacy" -> {"id", "category", "year", "image_path", "description",
                               "created_at", "updated_at"}
      [] layout = "new"    -> {"id", "category", "year", "image_data", "image_filename",
                               "image_mimetype", "description", "created_at", "updated_at"}
      [] OTHER             -> {}

DocumentsColumns(layout) ==
    CASE layout = "legacy" -> {"id", "title", "category", "file_path", "description",
                               "created_at", "updated_at"}
      [] layout = "new"    -> {"id", "title", "category", "file_data", "file_filename",
                               "file_mimetype", "description", "created_at", "updated_at"}
      [] OTHER             -> {}

\* a detection test that looks for the table only, not for its layout
DetectResultsAnyLayout(columnNames) == "id" \in columnNames

\* the detection predicate of migrateTables for the results table
DetectResults(columnNames) ==
    "image_path" \in columnNames /\ "image_data" \notin columnNames

\* the detection predicate of migrateTables for the documents table
DetectDocuments(docColumnNames) ==
    "file_path" \in docColumnNames /\ "file_data" \notin docColumnNames

\* rows a database written by the path-based version can hold at first startup
LegacyResults ==
    { { [id |-> 1, category |-> "kadetkinje", year |-> "2024",
         image_path |-> "assets/results/one.png", description |-> "A",
         created_at |-> 0, updated_at |-> 0] } }

LegacyDocuments ==
    { { [id |-> 1, title |-> "Pravilnik", category |-> "general",
         file_path |-> "assets/documents/one.pdf", description |-> "A",
         created_at |-> 0, updated_at |-> 0] } }

IdleReq == [op |-> "idle"]

\* a response: the handler that sent it, its status, and the rows the store
\* reported affected to that handler
Response(handler, status, affectedRows) ==
    [handler |-> handler, status |-> status, affectedRows |-> affectedRows]

NoResponse == Response("none", 0, 0)

\* no DELETE has been answered yet
NoneDeleted == [results |-> {}, documents |-> {}]

(***************************************************************************)
(* The state when the process is launched: the database is either empty or *)
(* was written by the path-based version of the server.                    *)
(***************************************************************************)
Init ==
    /\ pc = "start"
    /\ runNo = 1
    /\ faults = 0
    /\ migrationError = "none"
    /\ migrationDDL = FALSE
    /\ \E legacy \in BOOLEAN :
         IF legacy
         THEN /\ resultsLayout = "legacy"
              /\ documentsLayout = "legacy"
              /\ results \in LegacyResults
              /\ documents \in LegacyDocuments
              /\ resultsAutoInc = 2
              /\ documentsAutoInc = 2
         ELSE /\ resultsLayout = "none"
              /\ documentsLayout = "none"
              /\ results = {}
              /\ documents = {}
              /\ resultsAutoInc = 1
              /\ documentsAutoInc = 1
    /\ resultsNew = FALSE
    /\ documentsNew = FALSE
    /\ adminTable = FALSE
    /\ adminUsers = {}
    /\ clock = 0
    /\ reqs = [i \in 1..MaxReq |-> IdleReq]
    /\ served = 0
    /\ resp = NoResponse
    /\ deleted = NoneDeleted

\* outcomes a store statement can have: it succeeds, or fails while faults remain
Outcomes == IF faults < MaxFaults THEN {TRUE, FALSE} ELSE {TRUE}

Fail(ok) == faults' = IF ok THEN faults ELSE faults + 1

(***************************************************************************)
(* startServer -> initDatabase: the pool is created and initializeTables   *)
(* is awaited; initializeTables first awaits migrateTables.                *)
(***************************************************************************)
initDatabase ==
    /\ pc = "start"
    /\ pc' = "mig_results_columns"
    /\ UNCHANGED <<runNo, faults, migrationError, migrationDDL, dbVars, clock, reqVars>>

\* catch block of migrateTables: the error is logged and swallowed, the rest of
\* migrateTables is skipped and initializeTables continues
MigrationCatch(ok) ==
    /\ pc' = "init_results"
    /\ migrationError' = IF ok THEN "table_exists" ELSE "connection"

\* SELECT COLUMN_NAME ... WHERE TABLE_NAME = 'results', then the detection test
MigrateResultsColumns ==
    /\ pc = "mig_results_columns"
    /\ \E ok \in Outcomes :
         /\ Fail(ok)
         /\ IF ~ok THEN MigrationCatch(ok)
            ELSE /\ pc' = IF DetectResults(ResultsColumns(resultsLayout))
                          THEN "mig_results_create" ELSE "mig_documents_columns"
                 /\ UNCHANGED migrationError
    /\ UNCHANGED <<runNo, migrationDDL, dbVars, clock, reqVars>>

\* CREATE TABLE results_new: fails when the table exists already
MigrateResultsCreate ==
    /\ pc = "mig_results_create"
    /\ migrationDDL' = TRUE
    /\ \E ok \in Outcomes :
         /\ Fail(ok)
         /\ IF ~ok \/ resultsNew
            THEN MigrationCatch(ok) /\ UNCHANGED resultsNew
            ELSE /\ resultsNew' = TRUE
                 /\ pc' = "mig_results_drop"
                 /\ UNCHANGED migrationError
    /\ UNCHANGED <<runNo, resultsLayout, documentsLayout, documentsNew, adminTable,
                   adminUsers, results, documents, resultsAutoInc, documentsAutoInc,
                   clock, reqVars>>

\* DROP TABLE results: the table goes, and every row with it
MigrateResultsDrop ==
    /\ pc = "mig_results_drop"
    /\ migrationDDL' = TRUE
    /\ \E ok \in Outcomes :
         /\ Fail(ok)
         /\ IF ~ok
            THEN MigrationCatch(ok) /\ UNCHANGED <<resultsLayout, results>>
            ELSE /\ resultsLayout' = "none"
                 /\ results' = {}
                 /\ pc' = "mig_results_rename"
                 /\ UNCHANGED migrationError
    /\ UNCHANGED <<runNo, resultsNew, documentsLayout, documentsNew, adminTable,
                   adminUsers, documents, resultsAutoInc, documentsAutoInc, clock, reqVars>>

\* RENAME TABLE results_new TO results: the empty BLOB table takes the name
MigrateResultsRename ==
    /\ pc = "mig_results_rename"
    /\ migrationDDL' = TRUE
    /\ \E ok \in Outcomes :
         /\ Fail(ok)
         /\ IF ~ok
            THEN MigrationCatch(ok) /\ UNCHANGED <<resultsLayout, resultsNew, resultsAutoInc>>
            ELSE /\ resultsLayout' = "new"
                 /\ resultsNew' = FALSE
                 /\ resultsAutoInc' = 1
                 /\ pc' = "mig_documents_columns"
                 /\ UNCHANGED migrationError
    /\ UNCHANGED <<runNo, documentsLayout, documentsNew, adminTable, adminUsers,
                   results, documents, documentsAutoInc, clock, reqVars>>

\* SELECT COLUMN_NAME ... WHERE TABLE_NAME = 'documents', then the detection test
MigrateDocumentsColumns ==
    /\ pc = "mig_documents_columns"
    /\ \E ok \in Outcomes :
         /\ Fail(ok)
         /\ IF ~ok THEN MigrationCatch(ok)
            ELSE /\ pc' = IF DetectDocuments(DocumentsColumns(documentsLayout))
                          THEN "mig_documents_create" ELSE "init_results"
                 /\ UNCHANGED migrationError
    /\ UNCHANGED <<runNo, migrationDDL, dbVars, clock, reqVars>>

MigrateDocumentsCreate ==
    /\ pc = "mig_documents_create"
    /\ migrationDDL' = TRUE
    /\ \E ok \in Outcomes :
         /\ Fail(ok)
         /\ IF ~ok \/ documentsNew
            THEN MigrationCatch(ok) /\ UNCHANGED documentsNew
            ELSE /\ documentsNew' = TRUE
                 /\ pc' = "mig_documents_drop"
                 /\ UNCHANGED migrationError
    /\ UNCHANGED <<runNo, resultsLayout, resultsNew, documentsLayout, adminTable,
                   adminUsers, results, documents, resultsAutoInc, documentsAutoInc,
                   clock, reqVars>>

MigrateDocumentsDrop ==
    /\ pc = "mig_documents_drop"
    /\ migrationDDL' = TRUE
    /\ \E ok \in Outcomes :
         /\ Fail(ok)
         /\ IF ~ok
            THEN MigrationCatch(ok) /\ UNCHANGED <<documentsLayout, documents>>
            ELSE /\ documentsLayout' = "none"
                 /\ documents' = {}
                 /\ pc' = "mig_documents_rename"
                 /\ UNCHANGED migrationError
    /\ UNCHANGED <<runNo, resultsLayout, resultsNew, documentsNew, adminTable,
                   adminUsers, results, resultsAutoInc, documentsAutoInc, clock, reqVars>>

MigrateDocumentsRename ==
    /\ pc = "mig_documents_rename"
    /\ migrationDDL' = TRUE
    /\ \E ok \in Outcomes :
         /\ Fail(ok)
         /\ IF ~ok
            THEN MigrationCatch(ok)
                 /\ UNCHANGED <<documentsLayout, documentsNew, documentsAutoInc>>
            ELSE /\ documentsLayout' = "new"
                 /\ documentsNew' = FALSE
                 /\ documentsAutoInc' = 1
                 /\ pc' = "init_results"
                 /\ UNCHANGED migrationError
    /\ UNCHANGED <<runNo, resultsLayout, resultsNew, adminTable, adminUsers,
                   results, documents, resultsAutoInc, clock, reqVars>>

migrateTables ==
    \/ MigrateResultsColumns
    \/ MigrateResultsCreate
    \/ MigrateResultsDrop
    \/ MigrateResultsRename
    \/ MigrateDocumentsColumns
    \/ MigrateDocumentsCreate
    \/ MigrateDocumentsDrop
    \/ MigrateDocumentsRename


(***************************************************************************)
(* initializeTables after migrateTables has returned.  An error here is    *)
(* rethrown, and initDatabase answers it with process.exit(1).             *)
(***************************************************************************)
\* CREATE TABLE IF NOT EXISTS results: creates the BLOB layout only when no
\* table of that name exists
InitializeResults ==
    /\ pc = "init_results"
    /\ \E ok \in Outcomes :
         /\ Fail(ok)
         /\ IF ~ok
            THEN pc' = "exited" /\ UNCHANGED <<resultsLayout, resultsAutoInc>>
            ELSE /\ pc' = "init_documents"
                 /\ resultsLayout' = IF resultsLayout = "none" THEN "new" ELSE resultsLayout
                 /\ resultsAutoInc' = IF resultsLayout = "none" THEN 1 ELSE resultsAutoInc
    /\ UNCHANGED <<runNo, migrationError, migrationDDL, resultsNew, documentsLayout,
                   documentsNew, adminTable, adminUsers, results, documents,
                   documentsAutoInc, clock, reqVars>>

\* CREATE TABLE IF NOT EXISTS documents
InitializeDocuments ==
    /\ pc = "init_documents"
    /\ \E ok \in Outcomes :
         /\ Fail(ok)
         /\ IF ~ok
            THEN pc' = "exited" /\ UNCHANGED <<documentsLayout, documentsAutoInc>>
            ELSE /\ pc' = "init_admin"
                 /\ documentsLayout' =
                        IF documentsLayout = "none" THEN "new" ELSE documentsLayout
                 /\ documentsAutoInc' =
                        IF documentsLayout = "none" THEN 1 ELSE documentsAutoInc
    /\ UNCHANGED <<runNo, migrationError, migrationDDL, resultsLayout, resultsNew,
                   documentsNew, adminTable, adminUsers, results, documents,
                   resultsAutoInc, clock, reqVars>>

\* CREATE TABLE IF NOT EXISTS admin_users
InitializeAdminTable ==
    /\ pc = "init_admin"
    /\ \E ok \in Outcomes :
         /\ Fail(ok)
         /\ IF ~ok
            THEN pc' = "exited" /\ UNCHANGED adminTable
            ELSE pc' = "init_admin_count" /\ adminTable' = TRUE
    /\ UNCHANGED <<runNo, migrationError, migrationDDL, resultsLayout, resultsNew,
                   documentsLayout, documentsNew, adminUsers, results, documents,
                   resultsAutoInc, documentsAutoInc, clock, reqVars>>

\* a startup that inserts the admin row without counting the rows first
InitializeAdminNoCount ==
    /\ pc = "init_admin_count"
    /\ \E ok \in Outcomes :
         /\ Fail(ok)
         /\ pc' = IF ~ok THEN "exited" ELSE "init_admin_insert"
    /\ UNCHANGED <<runNo, migrationError, migrationDDL, dbVars, clock, reqVars>>

\* SELECT COUNT(*) FROM admin_users, then rows[0].count === 0
InitializeAdminCount ==
    /\ pc = "init_admin_count"
    /\ \E ok \in Outcomes :
         /\ Fail(ok)
         /\ pc' = IF ~ok THEN "exited"
                  ELSE IF Cardinality(adminUsers) = 0 THEN "init_admin_insert"
                  ELSE "init_done"
    /\ UNCHANGED <<runNo, migrationError, migrationDDL, dbVars, clock, reqVars>>

\* INSERT INTO admin_users (username, password_hash) VALUES ('admin', hash)
InitializeAdminInsert ==
    /\ pc = "init_admin_insert"
    /\ \E ok \in Outcomes :
         /\ Fail(ok)
         /\ IF ~ok \/ (\E u \in adminUsers : u.username = "admin")
            THEN pc' = "exited" /\ UNCHANGED adminUsers
            ELSE /\ pc' = "init_done"
                 /\ adminUsers' = adminUsers \cup
                        {[id |-> Cardinality(adminUsers) + 1, username |-> "admin",
                          password_hash |-> "hash(ADMIN_PASSWORD)"]}
    /\ UNCHANGED <<runNo, migrationError, migrationDDL, resultsLayout, resultsNew,
                   documentsLayout, documentsNew, adminTable, results, documents,
                   resultsAutoInc, documentsAutoInc, clock, reqVars>>

initializeTables ==
    \/ InitializeResults
    \/ InitializeDocuments
    \/ InitializeAdminTable
    \/ InitializeAdminCount
    \/ InitializeAdminInsert

\* startServer calling app.listen(PORT) without awaiting initDatabase
ListenNoAwait ==
    /\ pc \notin {"listening", "exited"}
    /\ pc' = "listening"
    /\ UNCHANGED <<runNo, faults, migrationError, migrationDDL, dbVars, clock, reqVars>>

\* startServer after initDatabase has resolved: app.listen(PORT)
Listen ==
    /\ pc = "init_done"
    /\ pc' = "listening"
    /\ UNCHANGED <<runNo, faults, migrationError, migrationDDL, dbVars, clock, reqVars>>

Running == pc \notin {"exited"}

\* SIGINT handler: the pool is closed and the process exits; the requests in
\* flight are lost
Shutdown ==
    /\ Running
    /\ pc' = "exited"
    /\ reqs' = [i \in 1..MaxReq |-> IdleReq]
    /\ UNCHANGED <<runNo, faults, migrationError, migrationDDL, dbVars, clock, served,
                   resp, deleted>>

\* the process is launched again against the same database
Restart ==
    /\ pc = "exited"
    /\ runNo < MaxRuns
    /\ pc' = "start"
    /\ runNo' = runNo + 1
    /\ migrationError' = "none"
    /\ migrationDDL' = FALSE
    /\ UNCHANGED <<faults, dbVars, clock, reqVars>>

\* CURRENT_TIMESTAMP advances
Tick ==
    /\ clock < MaxClock
    /\ clock' = clock + 1
    /\ UNCHANGED <<pc, runNo, faults, migrationError, migrationDDL, dbVars, reqVars>>


(***************************************************************************)
(* Middleware in front of the protected handlers.                          *)
(***************************************************************************)
\* the validity window of a credential, expiresIn: '24h', in ticks of the clock
TokenLifetime == 1

\* a request without an Authorization header, and a token that was not signed
\* with JWT_SECRET
NoToken == [kind |-> "none"]
Forged == [kind |-> "forged"]

\* a signature whose exp lies beyond every time the clock reaches
SignNoExpiry(user, now) ==
    [kind |-> "jwt", id |-> user.id, username |-> user.username, iat |-> now,
     exp |-> now + TokenLifetime + MaxClock + 1]

\* jwt.sign({id, username}, JWT_SECRET, {expiresIn: '24h'}) at time now
Sign(user, now) ==
    [kind |-> "jwt", id |-> user.id, username |-> user.username, iat |-> now,
     exp |-> now + TokenLifetime]

\* a verification that checks the signature and ignores exp
VerifyIgnoringExp(token, now) == token.kind = "jwt"

\* jwt.verify(token, JWT_SECRET) at time now: the signature is checked, then exp
Verify(token, now) == token.kind = "jwt" /\ now < token.exp

\* what a request can carry at time now: no token, a forged one, or a token that
\* a login of an admin user issued at some time up to now
Tokens(now) == {NoToken, Forged} \cup {Sign(u, t) : u \in adminUsers, t \in 0..now}

\* authenticateToken: 401 without a token, 403 when jwt.verify fails, else next()
\* (0 stands for next())
authenticateToken(token, now) ==
    IF token = NoToken THEN 401
    ELSE IF ~Verify(token, now) THEN 403
    ELSE 0

\* the body authenticateToken sends with 401 and 403
AuthError(status) ==
    IF status = 401 THEN "Access token required" ELSE "Invalid or expired token"

\* upload.fileFilter for a file in field fieldname
fileFilter(fieldname, file) ==
    IF fieldname = "image" THEN file.mimetype[1] = "image"
    ELSE IF fieldname = "file" THEN file.mimetype = <<"application", "pdf">>
    ELSE FALSE

\* an upload without limits.fileSize
uploadNoLimit(fieldname, file) ==
    IF file = NoFile THEN "next"
    ELSE IF ~fileFilter(fieldname, file) THEN "Error"
    ELSE "next"

\* upload.single(fieldname): the filter is asked when the file part starts, the
\* size limit is hit while the part is read
upload(fieldname, file) ==
    IF file = NoFile THEN "next"
    ELSE IF ~fileFilter(fieldname, file) THEN "Error"
    ELSE IF file.size > FileSizeLimit THEN "LIMIT_FILE_SIZE"
    ELSE "next"

\* the error handling middleware: the response to an upload error
errorMiddleware(error) ==
    IF error = "LIMIT_FILE_SIZE"
    THEN [status |-> 400, body |-> "File too large. Maximum size is 10MB."]
    ELSE [status |-> 500, body |-> "Internal server error"]

(***************************************************************************)
(* The statements the results handlers send to the store.                  *)
(***************************************************************************)
KeyOf(r) == <<r.category, r.year>>

\* the upsert as REPLACE INTO would run it: the old row is deleted and a new one
\* inserted
UpsertResultReplace(rows, autoInc, now, category, year, file, description) ==
    [rows |-> {r \in rows : KeyOf(r) # <<category, year>>} \cup
                {[id |-> autoInc, category |-> category, year |-> year,
                  image_data |-> file.buffer,
                  image_filename |-> file.originalname,
                  image_mimetype |-> file.mimetype,
                  description |-> description,
                  created_at |-> now, updated_at |-> now]},
     autoInc |-> autoInc + 1,
     affectedRows |-> IF \E r \in rows : KeyOf(r) = <<category, year>> THEN 2 ELSE 1]

\* the upsert with description left out of the ON DUPLICATE KEY UPDATE list
UpsertResultKeepDescription(rows, autoInc, now, category, year, file, description) ==
    IF \E r \in rows : KeyOf(r) = <<category, year>>
    THEN LET old == CHOOSE r \in rows : KeyOf(r) = <<category, year>>
             new == [old EXCEPT !.image_data = file.buffer,
                                !.image_filename = file.originalname,
                                !.image_mimetype = file.mimetype,
                                !.updated_at = now]
         IN  [rows |-> (rows \ {old}) \cup {new}, autoInc |-> autoInc,
              affectedRows |-> 2]
    ELSE [rows |-> rows \cup
                     {[id |-> autoInc, category |-> category, year |-> year,
                       image_data |-> file.buffer,
                       image_filename |-> file.originalname,
                       image_mimetype |-> file.mimetype,
                       description |-> description,
                       created_at |-> now, updated_at |-> now]},
          autoInc |-> autoInc + 1, affectedRows |-> 1]

\* the upsert with image_filename and image_mimetype left out of the ON DUPLICATE
\* KEY UPDATE list
UpsertResultPartial(rows, autoInc, now, category, year, file, description) ==
    IF \E r \in rows : KeyOf(r) = <<category, year>>
    THEN LET old == CHOOSE r \in rows : KeyOf(r) = <<category, year>>
             new == [old EXCEPT !.image_data = file.buffer,
                                !.description = description,
                                !.updated_at = now]
         IN  [rows |-> (rows \ {old}) \cup {new}, autoInc |-> autoInc,
              affectedRows |-> 2]
    ELSE [rows |-> rows \cup
                     {[id |-> autoInc, category |-> category, year |-> year,
                       image_data |-> file.buffer,
                       image_filename |-> file.originalname,
                       image_mimetype |-> file.mimetype,
                       description |-> description,
                       created_at |-> now, updated_at |-> now]},
          autoInc |-> autoInc + 1, affectedRows |-> 1]

\* INSERT INTO results (...) VALUES (...) ON DUPLICATE KEY UPDATE image_data =
\* VALUES(image_data), image_filename = ..., image_mimetype = ..., description =
\* ..., updated_at = CURRENT_TIMESTAMP, under UNIQUE KEY (category, year)
UpsertResult(rows, autoInc, now, category, year, file, description) ==
    IF \E r \in rows : KeyOf(r) = <<category, year>>
    THEN LET old == CHOOSE r \in rows : KeyOf(r) = <<category, year>>
             new == [old EXCEPT !.image_data = file.buffer,
                                !.image_filename = file.originalname,
                                !.image_mimetype = file.mimetype,
                                !.description = description,
                                !.updated_at = now]
         IN  [rows |-> (rows \ {old}) \cup {new}, autoInc |-> autoInc,
              affectedRows |-> 2]
    ELSE [rows |-> rows \cup
                     {[id |-> autoInc, category |-> category, year |-> year,
                       image_data |-> file.buffer,
                       image_filename |-> file.originalname,
                       image_mimetype |-> file.mimetype,
                       description |-> description,
                       created_at |-> now, updated_at |-> now]},
          autoInc |-> autoInc + 1, affectedRows |-> 1]

\* the number a MySQL comparison id = ? reads from a string parameter: the text of
\* a row id reads as that id, any other text as 0
ParseId(param) ==
    IF \E n \in 1..(MaxId + 1) : ToString(n) = param
    THEN CHOOSE n \in 1..(MaxId + 1) : ToString(n) = param
    ELSE 0

\* the update against a table without UNIQUE KEY (category, year)
UpdateResultNoUnique(rows, now, id, category, year, description, file) ==
    IF ~\E r \in rows : r.id = id
    THEN [rows |-> rows, affectedRows |-> 0, error |-> FALSE]
    ELSE LET old == CHOOSE r \in rows : r.id = id
             keyed == [old EXCEPT !.category = category, !.year = year,
                                  !.description = description, !.updated_at = now]
             new == IF file = NoFile THEN keyed
                    ELSE [keyed EXCEPT !.image_data = file.buffer,
                                       !.image_filename = file.originalname,
                                       !.image_mimetype = file.mimetype]
         IN  [rows |-> (rows \ {old}) \cup {new}, affectedRows |-> 1,
              error |-> FALSE]

\* the update as an upsert by id: an id that no row holds gets a row
UpdateResultInsert(rows, now, id, category, year, description, file) ==
    IF ~\E r \in rows : r.id = id
    THEN [rows |-> rows \cup
                     {[id |-> id, category |-> category, year |-> year,
                       image_data |-> file.buffer,
                       image_filename |-> file.originalname,
                       image_mimetype |-> file.mimetype,
                       description |-> description,
                       created_at |-> now, updated_at |-> now]},
          affectedRows |-> 1, error |-> FALSE]
    ELSE LET old == CHOOSE r \in rows : r.id = id
             keyed == [old EXCEPT !.category = category, !.year = year,
                                  !.description = description, !.updated_at = now]
             new == IF file = NoFile THEN keyed
                    ELSE [keyed EXCEPT !.image_data = file.buffer,
                                       !.image_filename = file.originalname,
                                       !.image_mimetype = file.mimetype]
         IN  IF \E r \in rows \ {old} : KeyOf(r) = <<category, year>>
             THEN [rows |-> rows, affectedRows |-> 0, error |-> TRUE]
             ELSE [rows |-> (rows \ {old}) \cup {new}, affectedRows |-> 1,
                   error |-> FALSE]

\* the update as UPDATE IGNORE would run it: a duplicate key is skipped without
\* an error and no row is reported affected
UpdateResultIgnore(rows, now, id, category, year, description, file) ==
    IF ~\E r \in rows : r.id = id
    THEN [rows |-> rows, affectedRows |-> 0, error |-> FALSE]
    ELSE LET old == CHOOSE r \in rows : r.id = id
             keyed == [old EXCEPT !.category = category, !.year = year,
                                  !.description = description, !.updated_at = now]
             new == IF file = NoFile THEN keyed
                    ELSE [keyed EXCEPT !.image_data = file.buffer,
                                       !.image_filename = file.originalname,
                                       !.image_mimetype = file.mimetype]
         IN  IF \E r \in rows \ {old} : KeyOf(r) = <<category, year>>
             THEN [rows |-> rows, affectedRows |-> 0, error |-> FALSE]
             ELSE [rows |-> (rows \ {old}) \cup {new}, affectedRows |-> 1,
                   error |-> FALSE]

\* UPDATE results SET category = ?, year = ?, description = ?, updated_at =
\* CURRENT_TIMESTAMP [, image_data = ?, image_filename = ?, image_mimetype = ?]
\* WHERE id = ?; ER_DUP_ENTRY when the new key belongs to another row
UpdateResult(rows, now, id, category, year, description, file) ==
    IF ~\E r \in rows : r.id = id
    THEN [rows |-> rows, affectedRows |-> 0, error |-> FALSE]
    ELSE LET old == CHOOSE r \in rows : r.id = id
             keyed == [old EXCEPT !.category = category, !.year = year,
                                  !.description = description, !.updated_at = now]
             new == IF file = NoFile THEN keyed
                    ELSE [keyed EXCEPT !.image_data = file.buffer,
                                       !.image_filename = file.originalname,
                                       !.image_mimetype = file.mimetype]
         IN  IF \E r \in rows \ {old} : KeyOf(r) = <<category, year>>
             THEN [rows |-> rows, affectedRows |-> 0, error |-> TRUE]
             ELSE [rows |-> (rows \ {old}) \cup {new}, affectedRows |-> 1,
                   error |-> FALSE]

\* the slot a new request takes: the server listens and the slot is the first
\* idle one
Free(i) ==
    /\ pc = "listening"
    /\ served < MaxRequests
    /\ reqs[i].op = "idle"
    /\ \A j \in 1..(i - 1) : reqs[j].op # "idle"

(***************************************************************************)
(* Routing of /api/results.  Express tries the routes in the order they    *)
(* were registered and runs the first whose method and pattern match; a    *)
(* pattern segment is a literal or a parameter.                            *)
(***************************************************************************)
Lit(text) == [param |-> FALSE, text |-> text]
Param(name) == [param |-> TRUE, text |-> name]

Routes ==
    << [method |-> "GET",    pattern |-> <<>>, handler |-> "get_results"],
       [method |-> "GET",    pattern |-> <<Param("category"), Param("year")>>,
        handler |-> "get_results_category_year"],
       [method |-> "GET",    pattern |-> <<Param("id"), Lit("image")>>,
        handler |-> "get_results_image"],
       [method |-> "POST",   pattern |-> <<>>, handler |-> "post_results"],
       [method |-> "PUT",    pattern |-> <<Param("id")>>, handler |-> "put_results"],
       [method |-> "DELETE", pattern |-> <<Param("id")>>, handler |-> "delete_results"] >>

Matches(route, method, path) ==
    /\ route.method = method
    /\ Len(route.pattern) = Len(path)
    /\ \A k \in 1..Len(path) :
         route.pattern[k].param \/ route.pattern[k].text = path[k]

\* the handler that answers method /api/results/path: the first match, or the
\* 404 handler app.use('*')
Dispatch(method, path) ==
    IF \E k \in 1..Len(Routes) : Matches(Routes[k], method, path)
    THEN LET first == CHOOSE k \in 1..Len(Routes) :
                        /\ Matches(Routes[k], method, path)
                        /\ \A j \in 1..(k - 1) : ~Matches(Routes[j], method, path)
         IN  Routes[first].handler
    ELSE "not_found"

(***************************************************************************)
(* The read statements of the results handlers.                            *)
(***************************************************************************)
\* position of a category and of a year in the collation order of the column
CategoryOrder == <<"kadetkinje", "mini-odbojka">>
YearOrder == <<"2023", "2024">>

Position(order, text) == CHOOSE k \in 1..Len(order) : order[k] = text

\* r comes before q under ORDER BY year, category
BeforeAscending(r, q) ==
    \/ Position(YearOrder, r.year) < Position(YearOrder, q.year)
    \/ /\ r.year = q.year
       /\ Position(CategoryOrder, r.category) < Position(CategoryOrder, q.category)

\* r comes before q under ORDER BY year DESC, category
Before(r, q) ==
    \/ Position(YearOrder, r.year) > Position(YearOrder, q.year)
    \/ /\ r.year = q.year
       /\ Position(CategoryOrder, r.category) < Position(CategoryOrder, q.category)

\* the columns the list and the lookup select: every column but image_data
Listed(r) ==
    [id |-> r.id, category |-> r.category, year |-> r.year,
     image_filename |-> r.image_filename, image_mimetype |-> r.image_mimetype,
     description |-> r.description, created_at |-> r.created_at,
     updated_at |-> r.updated_at]

RECURSIVE Ordered(_)
Ordered(rows) ==
    IF rows = {} THEN <<>>
    ELSE LET head == CHOOSE r \in rows : \A q \in rows \ {r} : ~Before(q, r)
         IN  <<Listed(head)>> \o Ordered(rows \ {head})

\* SELECT id, category, year, image_filename, image_mimetype, description,
\* created_at, updated_at FROM results ORDER BY year DESC, category
ListResults(rows) == Ordered(rows)

\* SELECT ... FROM results WHERE category = ? AND year = ?
SelectByCategoryYear(rows, category, year) ==
    {r \in rows : r.category = category /\ r.year = year}

\* SELECT image_data, image_mimetype, image_filename FROM results WHERE id = ?
SelectImage(rows, id) == {r \in rows : r.id = ParseId(id)}


(***************************************************************************)
(* The results handlers.  A handler runs without interruption up to its    *)
(* await of db.execute; the pool then runs the statements of the requests  *)
(* in flight in any order, each statement atomically.                      *)
(***************************************************************************)
\* the text of the row ids a path can name
IdParams == {ToString(n) : n \in 1..MaxId}

\* the paths below /api/results a GET can ask for
GetPaths == {<<>>} \cup {<<a, b>> : a \in Categories \cup IdParams,
                                     b \in Years \cup {"image"}}

Answer(status, body) == [status |-> status, body |-> body]

\* the answer of GET handler to the request for path, from the rows of table
\* results in layout
GetResponse(handler, path, layout, rows) ==
    CASE handler = "get_results" ->
           IF layout # "new" THEN Answer(500, "Database error")
           ELSE Answer(200, ListResults(rows))
      [] handler = "get_results_category_year" ->
           IF layout # "new" THEN Answer(500, "Database error")
           ELSE LET found == SelectByCategoryYear(rows, path[1], path[2])
                IN  IF found = {} THEN Answer(404, "Result not found")
                    ELSE Answer(200, Listed(CHOOSE r \in found : TRUE))
      [] handler = "get_results_image" ->
           IF layout # "new" THEN Answer(500, "Database error")
           ELSE LET found == SelectImage(rows, path[1])
                IN  IF found = {} THEN Answer(404, "Image not found")
                    ELSE LET r == CHOOSE r \in found : TRUE
                         IN  Answer(200, [data |-> r.image_data,
                                          contentType |-> r.image_mimetype,
                                          filename |-> r.image_filename])
      [] OTHER -> Answer(404, "Not found")

\* what a client gets for GET /api/results/path in the current state
Get(path) == GetResponse(Dispatch("GET", path), path, resultsLayout, results)

\* a response is sent and no statement is left waiting for the store
Reject(handler, status, error) ==
    /\ resp' = [handler |-> handler, status |-> status, affectedRows |-> 0,
                error |-> error]
    /\ served' = served + 1
    /\ UNCHANGED <<reqs, deleted>>

\* the handler hands a statement to the store and awaits it
Await(i, request) ==
    /\ served' = served + 1
    /\ reqs' = [reqs EXCEPT ![i] = request]
    /\ UNCHANGED <<resp, deleted>>

\* the awaited statement has returned and the response is sent
Finish(i, handler, status, affectedRows) ==
    /\ reqs' = [reqs EXCEPT ![i] = IdleReq]
    /\ resp' = Response(handler, status, affectedRows)
    /\ UNCHANGED served

\* GET /api/results, /api/results/:category/:year and /api/results/:id/image
GetResultsWith(i, path) ==
    /\ Free(i)
    /\ LET answer == Get(path)
       IN  Reject(Dispatch("GET", path), answer.status,
                  IF answer.status = 200 THEN "" ELSE answer.body)
    /\ UNCHANGED <<pc, runNo, faults, migrationError, migrationDDL, dbVars, clock>>

\* a GET below /api/results for any path
GetResults(i) ==
    /\ Free(i)
    /\ \E path \in GetPaths : GetResultsWith(i, path)

\* the files a POST /api/results can carry
PostFiles == Files \cup {NoFile, PdfFile, BigFile, BigPdf}

\* POST /api/results with the given token, file and form fields, up to the await
\* of the INSERT
PostResultsWith(i, token, file, category, year, description) ==
    /\ Free(i)
    /\ LET auth == authenticateToken(token, clock)
           up == upload("image", file)
       IN
       IF auth # 0
       THEN Reject("authenticateToken", auth, AuthError(auth))
       ELSE IF up # "next"
       THEN Reject("errorMiddleware", errorMiddleware(up).status,
                   errorMiddleware(up).body)
       ELSE IF file = NoFile
       THEN Reject("post_results", 400, "Image file is required")
       ELSE IF Falsy(category) \/ Falsy(year)
       THEN Reject("post_results", 400, "Category and year are required")
       ELSE IF description = Undefined
       THEN Reject("post_results", 500, "Database error")
       ELSE Await(i, [op |-> "post_results", category |-> category,
                      year |-> year, description |-> description, file |-> file])
    /\ UNCHANGED <<pc, runNo, faults, migrationError, migrationDDL, dbVars, clock>>

\* POST /api/results with any request; a part of the request that the handler
\* does not get to read is left undefined
PostResults(i) ==
    /\ Free(i)
    /\ \E token \in Tokens(clock) :
         IF authenticateToken(token, clock) # 0
         THEN PostResultsWith(i, token, NoFile, Undefined, Undefined, Undefined)
         ELSE \E file \in PostFiles :
           IF upload("image", file) # "next" \/ file = NoFile
           THEN PostResultsWith(i, token, file, Undefined, Undefined, Undefined)
           ELSE \E category \in Categories \cup {Undefined},
                   year \in Years \cup {Undefined} :
             IF category = Undefined \/ year = Undefined
             THEN PostResultsWith(i, token, file, category, year, Undefined)
             ELSE \E description \in Descriptions \cup {Undefined} :
               PostResultsWith(i, token, file, category, year, description)

\* the INSERT ... ON DUPLICATE KEY UPDATE of POST /api/results and its response
PostResultsExecute(i) ==
    /\ pc = "listening"
    /\ reqs[i].op = "post_results"
    /\ LET r == reqs[i]
           u == UpsertResult(results, resultsAutoInc, clock, r.category, r.year,
                             r.file, r.description)
       IN  IF resultsLayout # "new"
           THEN /\ Finish(i, "post_results", 500, 0)
                /\ UNCHANGED <<results, resultsAutoInc>>
           ELSE /\ u.autoInc <= MaxId + 1
                /\ results' = u.rows
                /\ resultsAutoInc' = u.autoInc
                /\ Finish(i, "post_results", 200, u.affectedRows)
    /\ UNCHANGED <<pc, runNo, faults, migrationError, migrationDDL, resultsLayout,
                   resultsNew, documentsLayout, documentsNew, adminTable, adminUsers,
                   documents, documentsAutoInc, clock, deleted>>

\* the description and the files an update carries
PutDescriptions == {"B"}
PutFiles == {FileTwo, NoFile, PdfFile, BigFile}

\* PUT /api/results/:id with the given token, file and form fields, up to the
\* await of the UPDATE
PutResultsWith(i, token, id, file, category, year, description) ==
    /\ Free(i)
    /\ LET auth == authenticateToken(token, clock)
           up == upload("image", file)
       IN
       IF auth # 0
       THEN Reject("authenticateToken", auth, AuthError(auth))
       ELSE IF up # "next"
       THEN Reject("errorMiddleware", errorMiddleware(up).status,
                   errorMiddleware(up).body)
       ELSE IF category = Undefined \/ year = Undefined \/ description = Undefined
       THEN Reject("put_results", 500, "Database error")
       ELSE Await(i, [op |-> "put_results", id |-> id,
                      category |-> category, year |-> year,
                      description |-> description, file |-> file])
    /\ UNCHANGED <<pc, runNo, faults, migrationError, migrationDDL, dbVars, clock>>

\* PUT /api/results/:id with any request; a part of the request that the handler
\* does not get to read is left undefined
PutResults(i) ==
    /\ Free(i)
    /\ \E token \in Tokens(clock) :
         IF authenticateToken(token, clock) # 0
         THEN PutResultsWith(i, token, "1", NoFile, Undefined, Undefined, Undefined)
         ELSE \E file \in PutFiles :
           IF upload("image", file) # "next"
           THEN PutResultsWith(i, token, "1", file, Undefined, Undefined, Undefined)
           ELSE \E category \in Categories \cup {Undefined},
                   year \in Years \cup {Undefined} :
             IF category = Undefined \/ year = Undefined
             THEN PutResultsWith(i, token, "1", file, category, year, Undefined)
             ELSE \E id \in IdParams, description \in PutDescriptions \cup {Undefined} :
               PutResultsWith(i, token, id, file, category, year, description)

\* the UPDATE of PUT /api/results/:id and its response
PutResultsExecute(i) ==
    /\ pc = "listening"
    /\ reqs[i].op = "put_results"
    /\ LET r == reqs[i]
           u == UpdateResult(results, clock, ParseId(r.id), r.category, r.year,
                             r.description, r.file)
       IN  IF (resultsLayout # "new" /\ r.file # NoFile) \/ u.error
           THEN /\ Finish(i, "put_results", 500, 0)
                /\ UNCHANGED results
           ELSE /\ results' = u.rows
                /\ Finish(i, "put_results", IF u.affectedRows = 0 THEN 404 ELSE 200,
                          u.affectedRows)
    /\ UNCHANGED <<pc, runNo, faults, migrationError, migrationDDL, resultsLayout,
                   resultsNew, documentsLayout, documentsNew, adminTable, adminUsers,
                   documents, resultsAutoInc, documentsAutoInc, clock, deleted>>

\* DELETE /api/results/:id with the given token, up to the await of the SELECT
DeleteResultsWith(i, token, id) ==
    /\ Free(i)
    /\ IF authenticateToken(token, clock) # 0
       THEN Reject("authenticateToken", authenticateToken(token, clock),
                   AuthError(authenticateToken(token, clock)))
       ELSE Await(i, [op |-> "delete_results", id |-> id, await |-> "select"])
    /\ UNCHANGED <<pc, runNo, faults, migrationError, migrationDDL, dbVars, clock>>

DeleteResults(i) ==
    /\ Free(i)
    /\ \E token \in Tokens(clock) :
         IF authenticateToken(token, clock) # 0
         THEN DeleteResultsWith(i, token, "1")
         ELSE \E id \in IdParams : DeleteResultsWith(i, token, id)

\* SELECT id FROM results WHERE id = ?, then rows.length === 0
DeleteResultsSelect(i) ==
    /\ pc = "listening"
    /\ reqs[i].op = "delete_results"
    /\ reqs[i].await = "select"
    /\ IF ~\E r \in results : r.id = ParseId(reqs[i].id)
       THEN Finish(i, "delete_results", 404, 0)
       ELSE /\ reqs' = [reqs EXCEPT ![i].await = "delete"]
            /\ UNCHANGED <<served, resp>>
    /\ UNCHANGED <<pc, runNo, faults, migrationError, migrationDDL, dbVars, clock,
                   deleted>>

\* DELETE FROM results, then the response
DeleteResultsDeleteAll(i) ==
    /\ pc = "listening"
    /\ reqs[i].op = "delete_results"
    /\ reqs[i].await = "delete"
    /\ results' = {}
    /\ Finish(i, "delete_results", 200, Cardinality(results))
    /\ deleted' = [deleted EXCEPT !.results = @ \cup {ParseId(reqs[i].id)}]
    /\ UNCHANGED <<pc, runNo, faults, migrationError, migrationDDL, resultsLayout,
                   resultsNew, documentsLayout, documentsNew, adminTable, adminUsers,
                   documents, resultsAutoInc, documentsAutoInc, clock>>

\* DELETE FROM results WHERE id = ?, then the response
DeleteResultsDelete(i) ==
    /\ pc = "listening"
    /\ reqs[i].op = "delete_results"
    /\ reqs[i].await = "delete"
    /\ LET gone == {r \in results : r.id = ParseId(reqs[i].id)}
       IN  /\ results' = results \ gone
           /\ Finish(i, "delete_results", 200, Cardinality(gone))
           /\ deleted' = [deleted EXCEPT !.results = @ \cup {ParseId(reqs[i].id)}]
    /\ UNCHANGED <<pc, runNo, faults, migrationError, migrationDDL, resultsLayout,
                   resultsNew, documentsLayout, documentsNew, adminTable, adminUsers,
                   documents, resultsAutoInc, documentsAutoInc, clock>>

Handlers ==
    \E i \in 1..MaxReq :
        \/ GetResults(i)
        \/ PostResults(i)
        \/ PostResultsExecute(i)
        \/ PutResults(i)
        \/ PutResultsExecute(i)
        \/ DeleteResults(i)
        \/ DeleteResultsSelect(i)
        \/ DeleteResultsDelete(i)

(***************************************************************************)
(* The documents handlers.  A document has no natural key: every POST      *)
(* appends a row.                                                          *)
(***************************************************************************)
Titles == {"Pravilnik"}
PutTitles == {"Statut"}
DocumentCategories == {"general"}
DocumentDescriptions == {"A"}

\* the files a POST and a PUT of a document can carry
DocumentFiles == {PdfFile, NoFile, FileOne, BigPdf, BigFile}
PutDocumentFiles == {PdfTwo, NoFile, FileOne, BigPdf}

\* the insert against a table with a unique key on (title, category, file_data):
\* a row with the same content is replaced in place
InsertDocumentUnique(rows, autoInc, now, title, category, file, description) ==
    LET same == {r \in rows : /\ r.title = title
                              /\ r.category = category
                              /\ r.file_data = file.buffer}
    IN  IF same # {}
        THEN [rows |-> (rows \ same) \cup
                         {[r EXCEPT !.description = description, !.updated_at = now] :
                            r \in same},
              autoInc |-> autoInc, insertId |-> (CHOOSE r \in same : TRUE).id]
        ELSE [rows |-> rows \cup
                {[id |-> autoInc, title |-> title, category |-> category,
                  file_data |-> file.buffer, file_filename |-> file.originalname,
                  file_mimetype |-> file.mimetype, description |-> description,
                  created_at |-> now, updated_at |-> now]},
              autoInc |-> autoInc + 1, insertId |-> autoInc]

\* INSERT INTO documents (title, category, file_data, file_filename,
\* file_mimetype, description) VALUES (?, ?, ?, ?, ?, ?)
InsertDocument(rows, autoInc, now, title, category, file, description) ==
    [rows |-> rows \cup
                {[id |-> autoInc, title |-> title, category |-> category,
                  file_data |-> file.buffer, file_filename |-> file.originalname,
                  file_mimetype |-> file.mimetype, description |-> description,
                  created_at |-> now, updated_at |-> now]},
     autoInc |-> autoInc + 1, insertId |-> autoInc]

\* the update without the file columns: the stored file stays whatever the
\* request carries
UpdateDocumentKeepFile(rows, now, id, title, category, description, file) ==
    IF ~\E r \in rows : r.id = id
    THEN [rows |-> rows, affectedRows |-> 0]
    ELSE LET old == CHOOSE r \in rows : r.id = id
             named == [old EXCEPT !.title = title, !.category = category,
                                  !.description = description, !.updated_at = now]
         IN  [rows |-> (rows \ {old}) \cup {named}, affectedRows |-> 1]

\* UPDATE documents SET title = ?, category = ?, description = ?, updated_at =
\* CURRENT_TIMESTAMP [, file_data = ?, file_filename = ?, file_mimetype = ?]
\* WHERE id = ?
UpdateDocument(rows, now, id, title, category, description, file) ==
    IF ~\E r \in rows : r.id = id
    THEN [rows |-> rows, affectedRows |-> 0]
    ELSE LET old == CHOOSE r \in rows : r.id = id
             named == [old EXCEPT !.title = title, !.category = category,
                                  !.description = description, !.updated_at = now]
             new == IF file = NoFile THEN named
                    ELSE [named EXCEPT !.file_data = file.buffer,
                                       !.file_filename = file.originalname,
                                       !.file_mimetype = file.mimetype]
         IN  [rows |-> (rows \ {old}) \cup {new}, affectedRows |-> 1]

DocumentRoutes ==
    << [method |-> "GET",    pattern |-> <<>>, handler |-> "get_documents"],
       [method |-> "GET",    pattern |-> <<Param("id")>>, handler |-> "get_documents_id"],
       [method |-> "GET",    pattern |-> <<Param("id"), Lit("file")>>,
        handler |-> "get_documents_file"],
       [method |-> "POST",   pattern |-> <<>>, handler |-> "post_documents"],
       [method |-> "PUT",    pattern |-> <<Param("id")>>, handler |-> "put_documents"],
       [method |-> "DELETE", pattern |-> <<Param("id")>>,
        handler |-> "delete_documents"] >>

\* the handler that answers method /api/documents/path
DispatchDocuments(method, path) ==
    IF \E k \in 1..Len(DocumentRoutes) : Matches(DocumentRoutes[k], method, path)
    THEN LET first == CHOOSE k \in 1..Len(DocumentRoutes) :
                        /\ Matches(DocumentRoutes[k], method, path)
                        /\ \A j \in 1..(k - 1) :
                             ~Matches(DocumentRoutes[j], method, path)
         IN  DocumentRoutes[first].handler
    ELSE "not_found"

\* the columns the list and the lookup select: every column but file_data
ListedDocument(r) ==
    [id |-> r.id, title |-> r.title, category |-> r.category,
     file_filename |-> r.file_filename, file_mimetype |-> r.file_mimetype,
     description |-> r.description, created_at |-> r.created_at,
     updated_at |-> r.updated_at]

\* SELECT ... FROM documents ORDER BY created_at DESC: the orders in which the
\* store can return the rows; rows created at the same time come in any order
ListDocuments(rows) ==
    {list \in [1..Cardinality(rows) -> {ListedDocument(r) : r \in rows}] :
        /\ \A r \in rows : \E k \in DOMAIN list : list[k] = ListedDocument(r)
        /\ \A k, m \in DOMAIN list : k < m => list[k].created_at >= list[m].created_at}

\* SELECT ... FROM documents WHERE id = ?
SelectDocument(rows, id) == {r \in rows : r.id = ParseId(id)}

\* the paths below /api/documents a GET can ask for
GetDocumentPaths == {<<>>} \cup {<<id>> : id \in IdParams}
                           \cup {<<id, "file">> : id \in IdParams}

\* the answers a client can get for GET /api/documents/path from the rows of
\* table documents in layout
GetDocumentResponses(handler, path, layout, rows) ==
    CASE handler = "get_documents" ->
           IF layout # "new" THEN {Answer(500, "Database error")}
           ELSE {Answer(200, list) : list \in ListDocuments(rows)}
      [] handler = "get_documents_id" ->
           IF layout # "new" THEN {Answer(500, "Database error")}
           ELSE LET found == SelectDocument(rows, path[1])
                IN  IF found = {} THEN {Answer(404, "Document not found")}
                    ELSE {Answer(200, ListedDocument(r)) : r \in found}
      [] handler = "get_documents_file" ->
           IF layout # "new" THEN {Answer(500, "Database error")}
           ELSE LET found == SelectDocument(rows, path[1])
                IN  IF found = {} THEN {Answer(404, "Document file not found")}
                    ELSE {Answer(200, [data |-> r.file_data,
                                       contentType |-> r.file_mimetype,
                                       filename |-> r.file_filename]) : r \in found}
      [] OTHER -> {Answer(404, "Not found")}

\* what a client can get for GET /api/documents/path in the current state
GetDocument(path) ==
    GetDocumentResponses(DispatchDocuments("GET", path), path, documentsLayout,
                         documents)

\* GET /api/documents, /api/documents/:id and /api/documents/:id/file
GetDocumentsWith(i, path) ==
    /\ Free(i)
    /\ \E answer \in GetDocument(path) :
         Reject(DispatchDocuments("GET", path), answer.status,
                IF answer.status = 200 THEN "" ELSE answer.body)
    /\ UNCHANGED <<pc, runNo, faults, migrationError, migrationDDL, dbVars, clock>>

\* a GET below /api/documents for any path
GetDocuments(i) ==
    /\ Free(i)
    /\ \E path \in GetDocumentPaths : GetDocumentsWith(i, path)

\* POST /api/documents with the given token, file and form fields, up to the
\* await of the INSERT
PostDocumentsWith(i, token, file, title, category, description) ==
    /\ Free(i)
    /\ LET auth == authenticateToken(token, clock)
           up == upload("file", file)
       IN
       IF auth # 0
       THEN Reject("authenticateToken", auth, AuthError(auth))
       ELSE IF up # "next"
       THEN Reject("errorMiddleware", errorMiddleware(up).status,
                   errorMiddleware(up).body)
       ELSE IF file = NoFile
       THEN Reject("post_documents", 400, "PDF file is required")
       ELSE IF Falsy(title) \/ Falsy(category)
       THEN Reject("post_documents", 400, "Title and category are required")
       ELSE IF description = Undefined
       THEN Reject("post_documents", 500, "Database error")
       ELSE Await(i, [op |-> "post_documents", title |-> title,
                      category |-> category, description |-> description,
                      file |-> file])
    /\ UNCHANGED <<pc, runNo, faults, migrationError, migrationDDL, dbVars, clock>>

PostDocuments(i) ==
    /\ Free(i)
    /\ \E token \in Tokens(clock) :
         IF authenticateToken(token, clock) # 0
         THEN PostDocumentsWith(i, token, NoFile, Undefined, Undefined, Undefined)
         ELSE \E file \in DocumentFiles :
           IF upload("file", file) # "next" \/ file = NoFile
           THEN PostDocumentsWith(i, token, file, Undefined, Undefined, Undefined)
           ELSE \E title \in Titles \cup {Undefined},
                   category \in DocumentCategories \cup {Undefined} :
             IF title = Undefined \/ category = Undefined
             THEN PostDocumentsWith(i, token, file, title, category, Undefined)
             ELSE \E description \in DocumentDescriptions \cup {Undefined} :
               PostDocumentsWith(i, token, file, title, category, description)

\* the INSERT of POST /api/documents and its response
PostDocumentsExecute(i) ==
    /\ pc = "listening"
    /\ reqs[i].op = "post_documents"
    /\ LET r == reqs[i]
           u == InsertDocument(documents, documentsAutoInc, clock, r.title,
                               r.category, r.file, r.description)
       IN  IF documentsLayout # "new"
           THEN /\ Finish(i, "post_documents", 500, 0)
                /\ UNCHANGED <<documents, documentsAutoInc>>
           ELSE /\ u.autoInc <= MaxId + 1
                /\ documents' = u.rows
                /\ documentsAutoInc' = u.autoInc
                /\ Finish(i, "post_documents", 200, 1)
    /\ UNCHANGED <<pc, runNo, faults, migrationError, migrationDDL, resultsLayout,
                   resultsNew, documentsLayout, documentsNew, adminTable, adminUsers,
                   results, resultsAutoInc, clock, deleted>>

\* PUT /api/documents/:id with the given token, file and form fields, up to the
\* await of the UPDATE
PutDocumentsWith(i, token, id, file, title, category, description) ==
    /\ Free(i)
    /\ LET auth == authenticateToken(token, clock)
           up == upload("file", file)
       IN
       IF auth # 0
       THEN Reject("authenticateToken", auth, AuthError(auth))
       ELSE IF up # "next"
       THEN Reject("errorMiddleware", errorMiddleware(up).status,
                   errorMiddleware(up).body)
       ELSE IF title = Undefined \/ category = Undefined \/ description = Undefined
       THEN Reject("put_documents", 500, "Database error")
       ELSE Await(i, [op |-> "put_documents", id |-> id, title |-> title,
                      category |-> category, description |-> description,
                      file |-> file])
    /\ UNCHANGED <<pc, runNo, faults, migrationError, migrationDDL, dbVars, clock>>

PutDocuments(i) ==
    /\ Free(i)
    /\ \E token \in Tokens(clock) :
         IF authenticateToken(token, clock) # 0
         THEN PutDocumentsWith(i, token, "1", NoFile, Undefined, Undefined, Undefined)
         ELSE \E file \in PutDocumentFiles :
           IF upload("file", file) # "next"
           THEN PutDocumentsWith(i, token, "1", file, Undefined, Undefined, Undefined)
           ELSE \E title \in PutTitles \cup {Undefined},
                   category \in DocumentCategories \cup {Undefined} :
             IF title = Undefined \/ category = Undefined
             THEN PutDocumentsWith(i, token, "1", file, title, category, Undefined)
             ELSE \E id \in IdParams,
                     description \in DocumentDescriptions \cup {Undefined} :
               PutDocumentsWith(i, token, id, file, title, category, description)

\* the UPDATE of PUT /api/documents/:id and its response
PutDocumentsExecute(i) ==
    /\ pc = "listening"
    /\ reqs[i].op = "put_documents"
    /\ LET r == reqs[i]
           u == UpdateDocument(documents, clock, ParseId(r.id), r.title, r.category,
                               r.description, r.file)
       IN  IF documentsLayout # "new" /\ r.file # NoFile
           THEN /\ Finish(i, "put_documents", 500, 0)
                /\ UNCHANGED documents
           ELSE /\ documents' = u.rows
                /\ Finish(i, "put_documents", IF u.affectedRows = 0 THEN 404 ELSE 200,
                          u.affectedRows)
    /\ UNCHANGED <<pc, runNo, faults, migrationError, migrationDDL, resultsLayout,
                   resultsNew, documentsLayout, documentsNew, adminTable, adminUsers,
                   results, resultsAutoInc, documentsAutoInc, clock, deleted>>

\* DELETE /api/documents/:id with the given token, up to the await of the SELECT
DeleteDocumentsWith(i, token, id) ==
    /\ Free(i)
    /\ IF authenticateToken(token, clock) # 0
       THEN Reject("authenticateToken", authenticateToken(token, clock),
                   AuthError(authenticateToken(token, clock)))
       ELSE Await(i, [op |-> "delete_documents", id |-> id, await |-> "select"])
    /\ UNCHANGED <<pc, runNo, faults, migrationError, migrationDDL, dbVars, clock>>

DeleteDocuments(i) ==
    /\ Free(i)
    /\ \E token \in Tokens(clock) :
         IF authenticateToken(token, clock) # 0
         THEN DeleteDocumentsWith(i, token, "1")
         ELSE \E id \in IdParams : DeleteDocumentsWith(i, token, id)

\* SELECT id FROM documents WHERE id = ?, then rows.length === 0
DeleteDocumentsSelect(i) ==
    /\ pc = "listening"
    /\ reqs[i].op = "delete_documents"
    /\ reqs[i].await = "select"
    /\ IF ~\E r \in documents : r.id = ParseId(reqs[i].id)
       THEN Finish(i, "delete_documents", 404, 0)
       ELSE /\ reqs' = [reqs EXCEPT ![i].await = "delete"]
            /\ UNCHANGED <<served, resp>>
    /\ UNCHANGED <<pc, runNo, faults, migrationError, migrationDDL, dbVars, clock,
                   deleted>>

\* DELETE FROM documents WHERE id = ?, then the response
DeleteDocumentsDelete(i) ==
    /\ pc = "listening"
    /\ reqs[i].op = "delete_documents"
    /\ reqs[i].await = "delete"
    /\ LET gone == {r \in documents : r.id = ParseId(reqs[i].id)}
       IN  /\ documents' = documents \ gone
           /\ Finish(i, "delete_documents", 200, Cardinality(gone))
           /\ deleted' = [deleted EXCEPT !.documents = @ \cup {ParseId(reqs[i].id)}]
    /\ UNCHANGED <<pc, runNo, faults, migrationError, migrationDDL, resultsLayout,
                   resultsNew, documentsLayout, documentsNew, adminTable, adminUsers,
                   results, resultsAutoInc, documentsAutoInc, clock>>

DocumentHandlers ==
    \E i \in 1..MaxReq :
        \/ GetDocuments(i)
        \/ PostDocuments(i)
        \/ PostDocumentsExecute(i)
        \/ PutDocuments(i)
        \/ PutDocumentsExecute(i)
        \/ DeleteDocuments(i)
        \/ DeleteDocumentsSelect(i)
        \/ DeleteDocumentsDelete(i)

(***************************************************************************)
(* Login.                                                                  *)
(***************************************************************************)
\* the password the first startup gave the admin user, and another one
AdminPassword == "ADMIN_PASSWORD"
Usernames == {"admin", "nobody"}
Passwords == {AdminPassword, "wrong"}

\* bcrypt.hashSync and bcrypt.compareSync; compareSyncAny is a comparison that
\* accepts every password
hashSync(password) == "hash(" \o password \o ")"
compareSyncAny(password, hash) == TRUE
compareSync(password, hash) == hashSync(password) = hash

\* SELECT * FROM admin_users WHERE username = ?
SelectAdmin(rows, username) == {u \in rows : u.username = username}

\* POST /api/auth/login with the given fields; a credential is sent only with 200
LoginWith(i, username, password) ==
    /\ Free(i)
    /\ IF username = Undefined \/ password = Undefined
       THEN Reject("login", 400, "Username and password are required")
       ELSE LET rows == SelectAdmin(adminUsers, username)
            IN  IF rows = {} \/ \A u \in rows : ~compareSync(password, u.password_hash)
                THEN Reject("login", 401, "Invalid credentials")
                ELSE /\ resp' = [handler |-> "login", status |-> 200,
                                 affectedRows |-> 0, error |-> "",
                                 token |-> Sign(CHOOSE u \in rows : TRUE, clock)]
                     /\ served' = served + 1
                     /\ UNCHANGED <<reqs, deleted>>
    /\ UNCHANGED <<pc, runNo, faults, migrationError, migrationDDL, dbVars, clock>>

Login(i) ==
    /\ Free(i)
    /\ \E username \in Usernames \cup {Undefined},
          password \in Passwords \cup {Undefined} :
         LoginWith(i, username, password)

(***************************************************************************)
(* Startup: the process is launched, may be stopped and launched again,    *)
(* and once it listens it answers the first requests (lists, lookups and   *)
(* submissions of results).  No startup statement reads CURRENT_TIMESTAMP, *)
(* so time stands still here.                                              *)
(***************************************************************************)
Next ==
    \/ initDatabase
    \/ migrateTables
    \/ initializeTables
    \/ Listen
    \/ Shutdown
    \/ Restart
    \/ \E i \in 1..MaxReq : GetResults(i) \/ PostResults(i) \/ PostResultsExecute(i)

Spec == Init /\ [][Next]_vars

(***************************************************************************)
(* Serving: the process listens and runs every results handler.  It starts *)
(* from the states in which a startup ends: both tables in the BLOB layout *)
(* (results empty, or holding a row an earlier request stored), or, when   *)
(* DROP TABLE results failed during the migration, the path-based tables   *)
(* still in place next to results_new.                                     *)
(***************************************************************************)
AdminRow == [id |-> 1, username |-> "admin", password_hash |-> "hash(ADMIN_PASSWORD)"]

\* a row an earlier POST /api/results stored
StoredRow ==
    [id |-> 1, category |-> "kadetkinje", year |-> "2024",
     image_data |-> FileOne.buffer, image_filename |-> FileOne.originalname,
     image_mimetype |-> FileOne.mimetype, description |-> "A",
     created_at |-> 0, updated_at |-> 0]

InitServe ==
    /\ pc = "listening"
    /\ runNo = 1
    /\ \E failed \in BOOLEAN :
         /\ migrationError = IF failed THEN "connection" ELSE "none"
         /\ faults = IF failed THEN 1 ELSE 0
         /\ migrationDDL = failed
         /\ resultsNew = failed
         /\ IF failed
            THEN /\ resultsLayout = "legacy"
                 /\ documentsLayout = "legacy"
                 /\ results \in LegacyResults
                 /\ documents \in LegacyDocuments
                 /\ resultsAutoInc = 2
                 /\ documentsAutoInc = 2
            ELSE /\ resultsLayout = "new"
                 /\ documentsLayout = "new"
                 /\ results \in {{}, {StoredRow}}
                 /\ documents = {}
                 /\ resultsAutoInc = Cardinality(results) + 1
                 /\ documentsAutoInc = 1
    /\ documentsNew = FALSE
    /\ adminTable = TRUE
    /\ adminUsers = {AdminRow}
    /\ clock = 0
    /\ reqs = [i \in 1..MaxReq |-> IdleReq]
    /\ served = 0
    /\ resp = NoResponse
    /\ deleted = NoneDeleted

NextServe == Tick \/ Handlers

SpecServe == InitServe /\ [][NextServe]_vars

(***************************************************************************)
(* The whole server while it listens: the results handlers, the documents  *)
(* handlers and the login, from the same states.                           *)
(***************************************************************************)
NextStore ==
    \/ Tick
    \/ Handlers
    \/ DocumentHandlers
    \/ \E i \in 1..MaxReq : Login(i)

SpecStore == InitServe /\ [][NextStore]_vars

(***************************************************************************)
(* The life of a deployment: startups, stops and restarts against the same *)
(* database, and between them every handler.                               *)
(***************************************************************************)
NextLife == Next \/ NextStore

SpecLife == Init /\ [][NextLife]_vars

\* the store and the process of the states from which SpecServe starts; each is
\* reached by Spec
ServeStartsHealthy ==
    /\ pc = "listening" /\ runNo = 1 /\ clock = 0
    /\ migrationError = "none" /\ faults = 0 /\ ~migrationDDL
    /\ resultsLayout = "new" /\ documentsLayout = "new"
    /\ ~resultsNew /\ ~documentsNew
    /\ results = {} /\ documents = {} /\ resultsAutoInc = 1 /\ documentsAutoInc = 1
    /\ adminUsers = {AdminRow}

ServeStartsStored ==
    /\ pc = "listening" /\ runNo = 1 /\ clock = 0
    /\ migrationError = "none" /\ faults = 0 /\ ~migrationDDL
    /\ resultsLayout = "new" /\ documentsLayout = "new"
    /\ ~resultsNew /\ ~documentsNew
    /\ results = {StoredRow} /\ documents = {} /\ resultsAutoInc = 2
    /\ documentsAutoInc = 1
    /\ adminUsers = {AdminRow}

ServeStartsFailed ==
    /\ pc = "listening" /\ runNo = 1 /\ clock = 0
    /\ migrationError = "connection" /\ faults = 1 /\ migrationDDL
    /\ resultsLayout = "legacy" /\ documentsLayout = "legacy"
    /\ resultsNew /\ ~documentsNew
    /\ results \in LegacyResults /\ documents \in LegacyDocuments
    /\ resultsAutoInc = 2 /\ documentsAutoInc = 2
    /\ adminUsers = {AdminRow}

(***************************************************************************)
(* Properties of the results store.                                        *)
(***************************************************************************)
RowsOf(rows, category, year) == {r \in rows : KeyOf(r) = <<category, year>>}

\* slot i finishes a POST /api/results in this step and answers it with 200
PostSucceeds(i) ==
    /\ reqs[i].op = "post_results"
    /\ pc' = "listening"
    /\ reqs'[i].op = "idle"
    /\ resp'.status = 200

\* C1: in every reachable state, whatever POST, PUT and DELETE requests have run
\* and however their statements interleaved, table results holds at most one row
\* for each (category, year) pair.
C1_OneRowPerCategoryYear ==
    \A r, q \in results : KeyOf(r) = KeyOf(q) => r = q

\* two rows exist and a PUT that would have moved one onto the key of the other
\* has been answered
C1_Witness ==
    /\ resultsLayout = "new"
    /\ Cardinality(results) = 2
    /\ resp = Response("put_results", 500, 0)

\* C2: a POST /api/results that succeeds for a pair that already has a row changes
\* that row in place: the row keeps its id and created_at, takes image_data,
\* image_filename, image_mimetype and description from the request and the current
\* time as updated_at; no row is removed or added and no id is allocated.
C2_UpsertInPlace ==
    [][\A i \in 1..MaxReq :
         (PostSucceeds(i) /\ RowsOf(results, reqs[i].category, reqs[i].year) # {}) =>
            \E old \in results, new \in results' :
               /\ KeyOf(old) = <<reqs[i].category, reqs[i].year>>
               /\ new.id = old.id
               /\ new.created_at = old.created_at
               /\ KeyOf(new) = KeyOf(old)
               /\ new.image_data = reqs[i].file.buffer
               /\ new.image_filename = reqs[i].file.originalname
               /\ new.image_mimetype = reqs[i].file.mimetype
               /\ new.description = reqs[i].description
               /\ new.updated_at = clock
               /\ results' = (results \ {old}) \cup {new}
               /\ resultsAutoInc' = resultsAutoInc]_vars

\* a POST has replaced the content of a row created at an earlier time
C2_Witness ==
    /\ resp = Response("post_results", 200, 2)
    /\ \E r \in results : r.created_at < r.updated_at /\ r.updated_at = clock

\* the entries of the list GET /api/results sends after this step that carry the
\* pair (category, year)
ListedAfter(category, year) ==
    LET list == GetResponse(Dispatch("GET", <<>>), <<>>, resultsLayout', results').body
    IN  {k \in 1..Len(list) : list[k].category = category /\ list[k].year = year}

\* slot i finishes a POST /api/results with 200 for a pair whose row holds another
\* payload and another description
SecondPost(i) ==
    /\ PostSucceeds(i)
    /\ \E old \in RowsOf(results, reqs[i].category, reqs[i].year) :
         /\ old.image_data # reqs[i].file.buffer
         /\ old.description # reqs[i].description

\* C3 as stated: after a second POST /api/results for a pair, with another payload
\* and another description, the pair has exactly one row, and GET /api/results
\* lists the pair exactly once with the second description and the second payload.
C3_ListCarriesPayload ==
    [][\A i \in 1..MaxReq :
         SecondPost(i) =>
            LET list == GetResponse(Dispatch("GET", <<>>), <<>>, resultsLayout',
                                    results').body
                at == ListedAfter(reqs[i].category, reqs[i].year)
            IN  /\ Cardinality(RowsOf(results', reqs[i].category, reqs[i].year)) = 1
                /\ Cardinality(at) = 1
                /\ \A k \in at :
                     /\ list[k].description = reqs[i].description
                     /\ "image_data" \in DOMAIN list[k]
                     /\ list[k].image_data = reqs[i].file.buffer]_vars

\* C3: after a second POST /api/results for a pair, with another payload and
\* another description, the pair has exactly one row and that row holds the second
\* payload; GET /api/results lists the pair exactly once, with the second
\* description and the filename and MIME type of the second payload, and the list
\* entry carries no payload at all.
C3_SecondPostWins ==
    [][\A i \in 1..MaxReq :
         SecondPost(i) =>
            LET list == GetResponse(Dispatch("GET", <<>>), <<>>, resultsLayout',
                                    results').body
                at == ListedAfter(reqs[i].category, reqs[i].year)
                rows == RowsOf(results', reqs[i].category, reqs[i].year)
            IN  /\ Cardinality(rows) = 1
                /\ \A r \in rows : r.image_data = reqs[i].file.buffer
                /\ Cardinality(at) = 1
                /\ \A k \in at :
                     /\ list[k].description = reqs[i].description
                     /\ list[k].image_filename = reqs[i].file.originalname
                     /\ list[k].image_mimetype = reqs[i].file.mimetype
                     /\ "image_data" \notin DOMAIN list[k]]_vars

\* two POSTs for ("mini-odbojka", "2024") have run one after the other, the first
\* with description "A" creating the row, the second with description "B" and
\* the other file replacing its content
C3_Witness ==
    /\ served = 2
    /\ resp = Response("post_results", 200, 2)
    /\ \E r \in results :
         /\ KeyOf(r) = <<"mini-odbojka", "2024">>
         /\ r.description = "B"
         /\ r.image_data = FileTwo.buffer
         /\ r.created_at < r.updated_at
    /\ Get(<<>>).status = 200

\* C4: every INSERT ... ON DUPLICATE KEY UPDATE of a POST /api/results that runs
\* against the BLOB layout, whatever other requests are in flight, is answered
\* with 200, leaves exactly one row for the pair, and that row has the payload,
\* the filename, the MIME type and the description of that one request; the
\* requests still in flight are left as they were.
C4_ConcurrentPosts ==
    [][\A i \in 1..MaxReq :
         ( /\ reqs[i].op = "post_results"
           /\ reqs'[i].op = "idle"
           /\ pc' = "listening"
           /\ resultsLayout = "new" ) =>
            LET rows == RowsOf(results', reqs[i].category, reqs[i].year)
            IN  /\ resp'.handler = "post_results"
                /\ resp'.status = 200
                /\ Cardinality(rows) = 1
                /\ \A r \in rows :
                     /\ r.image_data = reqs[i].file.buffer
                     /\ r.image_filename = reqs[i].file.originalname
                     /\ r.image_mimetype = reqs[i].file.mimetype
                     /\ r.description = reqs[i].description
                /\ \A j \in (1..MaxReq) \ {i} : reqs'[j] = reqs[j]]_vars

\* two POSTs for the same pair were in flight together (the second took slot 2
\* because slot 1 was taken); the first has inserted the only row, the second,
\* with another file and another description, still waits for the store
C4_Witness ==
    /\ resultsLayout = "new"
    /\ reqs[1].op = "idle"
    /\ reqs[2].op = "post_results"
    /\ resp = Response("post_results", 200, 1)
    /\ \E r \in results :
         /\ results = {r}
         /\ KeyOf(r) = <<reqs[2].category, reqs[2].year>>
         /\ r.image_data # reqs[2].file.buffer
         /\ r.description # reqs[2].description

\* C5 as stated: while the server listens on the BLOB layout, GET
\* /api/results/{id}/image answers, for every id that has a row, 200 with the
\* bytes, the MIME type and the filename stored in that row, and 404 for an id
\* without a row.
C5_ImageRoundTrip ==
    (pc = "listening" /\ resultsLayout = "new") =>
        \A id \in IdParams :
            IF \E r \in results : r.id = ParseId(id)
            THEN \E r \in results :
                    /\ r.id = ParseId(id)
                    /\ Get(<<id, "image">>) =
                          Answer(200, [data |-> r.image_data,
                                       contentType |-> r.image_mimetype,
                                       filename |-> r.image_filename])
            ELSE Get(<<id, "image">>).status = 404

(***************************************************************************)
(* Properties of the startup.                                              *)
(***************************************************************************)
\* positions of the process inside migrateTables
MigratePcs ==
    {"mig_results_columns", "mig_results_create", "mig_results_drop",
     "mig_results_rename", "mig_documents_columns", "mig_documents_create",
     "mig_documents_drop", "mig_documents_rename"}

\* positions at which migrateTables is about to issue a DDL statement
MigrateDDLPcs == MigratePcs \ {"mig_results_columns", "mig_documents_columns"}

\* initializeTables has returned
Initialized == pc \in {"init_done", "listening"}

\* a path-based table stands next to its leftover *_new table
Stuck ==
    \/ resultsLayout = "legacy" /\ resultsNew
    \/ documentsLayout = "legacy" /\ documentsNew

\* C6 as stated: once migrateTables and initializeTables have run, table results
\* exists in exactly one of the two layouts, so does table documents, and neither
\* results_new nor documents_new exists.
C6_OneLayoutNoLeftover ==
    Initialized =>
        /\ resultsLayout \in {"legacy", "new"}
        /\ documentsLayout \in {"legacy", "new"}
        /\ ~resultsNew
        /\ ~documentsNew

\* C7: a startup that finds both tables in the BLOB layout, as a completed
\* migration leaves them, walks through migrateTables with both detection tests
\* false: it reaches no CREATE, DROP or RENAME, issues no DDL, catches no error
\* that DDL could raise, and leaves every table and every row as it found them.
C7_SecondRunNoOp ==
    [][( /\ pc \in MigratePcs
         /\ resultsLayout = "new"
         /\ documentsLayout = "new" ) =>
            /\ ~DetectResults(ResultsColumns(resultsLayout))
            /\ ~DetectDocuments(DocumentsColumns(documentsLayout))
            /\ pc \notin MigrateDDLPcs
            /\ pc' \notin MigrateDDLPcs
            /\ migrationDDL' = migrationDDL
            /\ dbVars' = dbVars]_vars

\* the second startup has passed migrateTables without DDL and without error, and
\* the row a request stored during the first run is still in the BLOB table
C7_Witness ==
    /\ runNo = 2
    /\ pc = "init_results"
    /\ ~migrationDDL
    /\ migrationError = "none"
    /\ resultsLayout = "new"
    /\ documentsLayout = "new"
    /\ results # {}

\* C8 as stated: a startup that follows a migration that failed partway, and
\* that loses no statement to the connection itself, does not end with a
\* path-based table next to a leftover *_new table: the migration completes or is
\* found unnecessary.
C8_NextStartupRecovers ==
    (runNo >= 2 /\ Initialized /\ migrationError # "connection") => ~Stuck

\* C9 as stated: a startup in which a step of migrateTables failed never reaches
\* the listening state.
C9_MigrationFailureFatal ==
    migrationError # "none" => pc # "listening"

\* C10: the process starts to listen only from the point where initDatabase has
\* resolved, with the three tables and the admin row in place; and every step
\* that receives a request, runs a statement of a handler or sends a response is
\* taken by a listening process, so after initializeTables has returned.
C10_StartupBarrier ==
    [][ /\ (pc' = "listening" /\ pc # "listening") =>
              /\ pc = "init_done"
              /\ resultsLayout # "none"
              /\ documentsLayout # "none"
              /\ adminTable
              /\ adminUsers # {}
        /\ (served' # served \/ resp' # resp \/ reqs' # reqs) =>
              /\ pc = "listening"
              /\ resultsLayout # "none"
              /\ documentsLayout # "none"
              /\ adminTable
              /\ adminUsers # {} ]_vars

\* a listening process has received requests, one of them has been answered from
\* the store and another waits for it
C10_Witness ==
    /\ pc = "listening"
    /\ served = 2
    /\ resp.handler = "get_results"
    /\ \E i \in 1..MaxReq : reqs[i].op = "post_results"

\* row l of the path-based table results is among rows, but for its path column
KeptResult(l, rows) ==
    \E r \in rows :
        /\ r.id = l.id
        /\ r.category = l.category
        /\ r.year = l.year
        /\ r.description = l.description
        /\ r.created_at = l.created_at
        /\ r.updated_at = l.updated_at

\* row l of the path-based table documents is among rows, but for its path column
KeptDocument(l, rows) ==
    \E r \in rows :
        /\ r.id = l.id
        /\ r.title = l.title
        /\ r.category = l.category
        /\ r.description = l.description
        /\ r.created_at = l.created_at
        /\ r.updated_at = l.updated_at

\* C11 as stated: when migrateTables has rebuilt the tables and returned without
\* an error, every row of the path-based tables is in the BLOB tables with the
\* same id, category, year or title, description and timestamps.
C11_MigrationKeepsRows ==
    (pc = "init_results" /\ migrationDDL /\ migrationError = "none") =>
        /\ \A rows \in LegacyResults : \A l \in rows : KeptResult(l, results)
        /\ \A rows \in LegacyDocuments : \A l \in rows : KeptDocument(l, documents)

\* C12 as stated: once a DELETE of a result or document id has been answered
\* 200, table results, respectively documents, never again holds a row with
\* that id: no list or lookup returns one and no later row is given the id.
C12_DeletedIdsStayGone ==
    /\ \A r \in results : r.id \notin deleted.results
    /\ \A r \in documents : r.id \notin deleted.documents

(***************************************************************************)
(* Properties of the middleware and of the error responses.                *)
(***************************************************************************)
\* the step is the receipt, in slot i, of a POST, PUT or DELETE on results or
\* documents that carries token; the rest of the request is left undefined, as
\* it is in the handlers for a request that authenticateToken turns away
ProtectedWith(i, token) ==
    \/ PostResultsWith(i, token, NoFile, Undefined, Undefined, Undefined)
    \/ PutResultsWith(i, token, "1", NoFile, Undefined, Undefined, Undefined)
    \/ DeleteResultsWith(i, token, "1")
    \/ PostDocumentsWith(i, token, NoFile, Undefined, Undefined, Undefined)
    \/ PutDocumentsWith(i, token, "1", NoFile, Undefined, Undefined, Undefined)
    \/ DeleteDocumentsWith(i, token, "1")

\* the receipt of a protected request with any token
Protected(i) ==
    /\ Free(i)
    /\ \E token \in Tokens(clock) : ProtectedWith(i, token)

\* The gate in front of the protected routes: logins, the passing of time, and
\* protected requests that differ in their token only, with the statements of
\* those that get past authenticateToken and validation.
NextGate ==
    \/ Tick
    \/ \E i \in 1..MaxReq :
          \/ Login(i)
          \/ Protected(i)
          \/ DeleteResultsSelect(i)
          \/ DeleteResultsDelete(i)
          \/ DeleteDocumentsSelect(i)
          \/ DeleteDocumentsDelete(i)

SpecGate == InitServe /\ [][NextGate]_vars

\* the token is forged, or its validity window is over at time now
Invalid(token, now) ==
    \/ token = Forged
    \/ token.kind = "jwt" /\ now >= token.iat + TokenLifetime

\* C13: a POST, PUT or DELETE on results or documents that carries no token is
\* answered 401 by authenticateToken, and one that carries a forged or an expired
\* token is answered 403; in both cases no statement of the route handler is
\* handed to the store and every table is left as it was.
C13_AuthGate ==
    [][\A i \in 1..MaxReq :
         (Free(i) /\ served' # served) =>
            \A token \in Tokens(clock) :
               ((token = NoToken \/ Invalid(token, clock)) /\ ProtectedWith(i, token)) =>
                  /\ resp'.handler = "authenticateToken"
                  /\ resp'.status = IF token = NoToken THEN 401 ELSE 403
                  /\ reqs' = reqs
                  /\ dbVars' = dbVars]_vars

\* both tables hold a row, the validity window of the first tokens is over, and
\* the request received last was turned away with 403
C13_Witness ==
    /\ resp.handler = "authenticateToken"
    /\ resp.status = 403
    /\ clock >= TokenLifetime
    /\ results # {}
    /\ documents # {}

\* the admin table holds a user of that name whose stored hash is the hash of
\* the password
Matching(username, password) ==
    \E u \in adminUsers : u.username = username /\ u.password_hash = hashSync(password)

\* C14: a POST /api/auth/login that names a user the admin table does not hold,
\* or gives a password other than the one whose hash is stored, is answered 401
\* and the response carries no token; a response carries a token only when it is
\* the 200 of a login.
C14_LoginRejects ==
    [][\A i \in 1..MaxReq :
         (Free(i) /\ served' # served) =>
            /\ \A username \in Usernames, password \in Passwords :
                  (~Matching(username, password) /\ LoginWith(i, username, password)) =>
                     /\ resp'.handler = "login"
                     /\ resp'.status = 401
                     /\ "token" \notin DOMAIN resp'
                     /\ dbVars' = dbVars
            /\ (resp' # resp /\ "token" \in DOMAIN resp') =>
                  /\ resp'.handler = "login"
                  /\ resp'.status = 200
                  /\ \E username \in Usernames, password \in Passwords :
                        Matching(username, password) /\ LoginWith(i, username, password)]_vars

\* a login was turned away with 401 right after one that was given a token
C14_Witness ==
    /\ served = 2
    /\ resp.handler = "login"
    /\ resp.status = 401
    /\ "token" \notin DOMAIN resp
    /\ adminUsers # {}


\* the token is one that jwt.sign has produced for an admin user at or before
\* time now
Issued(token, now) == token \in Tokens(now) /\ token.kind = "jwt"

\* C15: the token sent with a 200 login is signed at the time of the login and
\* expires TokenLifetime (24 hours) later; a POST, PUT or DELETE on results or
\* documents that carries such a token passes authenticateToken and reaches
\* its route handler as long as the clock is before the token's expiry, and is
\* answered 403 with every table left as it was once the expiry is reached.
C15_TokenWindow ==
    [][\A i \in 1..MaxReq :
         (Free(i) /\ served' # served) =>
            /\ (resp' # resp /\ "token" \in DOMAIN resp') =>
                  /\ Issued(resp'.token, clock)
                  /\ resp'.token.iat = clock
                  /\ resp'.token.exp = clock + TokenLifetime
            /\ \A token \in Tokens(clock) :
                  (Issued(token, clock) /\ ProtectedWith(i, token)) =>
                     IF clock < token.iat + TokenLifetime
                     THEN \/ reqs'[i].op # "idle"
                          \/ resp'.handler # "authenticateToken"
                     ELSE /\ resp'.handler = "authenticateToken"
                          /\ resp'.status = 403
                          /\ reqs' = reqs
                          /\ dbVars' = dbVars]_vars

\* a protected request passed authenticateToken and awaits its statement, and
\* after the validity window of the first tokens a later request was answered
\* 403
C15_Witness ==
    /\ clock >= TokenLifetime
    /\ resp.handler = "authenticateToken"
    /\ resp.status = 403
    /\ \E i \in 1..MaxReq : reqs[i].op # "idle"


\* the step is the receipt, in slot i, of an upload of file in the field of
\* one of the four uploading routes, with a token that authenticateToken accepts
UploadWith(i, token, fieldname, file) ==
    /\ authenticateToken(token, clock) = 0
    /\ IF fieldname = "image"
       THEN \/ PostResultsWith(i, token, file, Undefined, Undefined, Undefined)
            \/ PutResultsWith(i, token, "1", file, Undefined, Undefined, Undefined)
       ELSE \/ PostDocumentsWith(i, token, file, Undefined, Undefined, Undefined)
            \/ PutDocumentsWith(i, token, "1", file, Undefined, Undefined, Undefined)

UploadFields == {"image", "file"}

\* the receipt of an authenticated upload of any file in either field
Upload(i) ==
    /\ Free(i)
    /\ \E token \in Tokens(clock) :
         /\ authenticateToken(token, clock) = 0
         /\ \E fieldname \in UploadFields, file \in PostFiles \ {NoFile} :
              UploadWith(i, token, fieldname, file)

\* The middleware in front of the handlers: the gate, uploads that differ in
\* their token, field and file only, and the lookups, so that every response
\* that carries a message is sent.
NextUpload ==
    \/ NextGate
    \/ \E i \in 1..MaxReq :
          \/ Upload(i)
          \/ GetResults(i)
          \/ GetDocuments(i)

SpecUpload == InitServe /\ [][NextUpload]_vars

\* C16: an authenticated upload whose file does not pass the filter of its
\* field (a non-image in "image", a non-PDF in "file") is answered with a
\* status between 400 and 499, no statement is handed to the store and every
\* table is left as it was.
C16_MimeMismatchClientError ==
    [][\A i \in 1..MaxReq :
         (Free(i) /\ served' # served) =>
            \A token \in Tokens(clock), fieldname \in UploadFields,
               file \in PostFiles \ {NoFile} :
               (~fileFilter(fieldname, file) /\ UploadWith(i, token, fieldname, file)) =>
                  /\ resp'.status \in 400..499
                  /\ reqs' = reqs
                  /\ dbVars' = dbVars]_vars


\* the message of the response to a file above the size limit
TooLarge == errorMiddleware("LIMIT_FILE_SIZE").body

\* the files above the size limit
BigFiles == {file \in PostFiles \ {NoFile} : file.size > FileSizeLimit}

C18_MissingFieldsClientError ==
    [][\A i \in 1..MaxReq :
         (Free(i) /\ served' # served) =>
            \A token \in Tokens(clock) :
               authenticateToken(token, clock) = 0 =>
                  /\ \A file \in PostFiles, category \in Categories \cup {Undefined},
                        year \in Years \cup {Undefined} :
                        ( /\ file = NoFile \/ category = Undefined \/ year = Undefined
                          /\ PostResultsWith(i, token, file, category, year, Undefined) ) =>
                           /\ resp'.status \in 400..499
                           /\ "error" \in DOMAIN resp'
                           /\ reqs' = reqs
                           /\ dbVars' = dbVars
                  /\ \A file \in DocumentFiles, title \in Titles \cup {Undefined},
                        category \in DocumentCategories \cup {Undefined} :
                        ( /\ file = NoFile \/ title = Undefined \/ category = Undefined
                          /\ PostDocumentsWith(i, token, file, title, category, Undefined) ) =>
                           /\ resp'.status \in 400..499
                           /\ "error" \in DOMAIN resp'
                           /\ reqs' = reqs
                           /\ dbVars' = dbVars]_vars


\* no row of table rows carries the id of the path parameter
Absent(rows, id) == ~\E r \in rows : r.id = ParseId(id)

\* C19: with both tables in the BLOB layout, GET /api/results/:category/:year
\* for a pair no row holds, GET /api/documents/:id for an id no row holds, and
\* an authenticated PUT or DELETE on results or documents for an id no row
\* holds, with no file or a file that upload accepts, are answered 404 (at the
\* receipt, or when the statement the handler awaits has run) and leave every
\* table as it was.
C19_AbsentIs404 ==
    [][\A i \in 1..MaxReq :
         (resultsLayout = "new" /\ documentsLayout = "new") =>
            /\ (Free(i) /\ served' # served) =>
                  /\ \A category \in Categories, year \in Years :
                        ( /\ RowsOf(results, category, year) = {}
                          /\ GetResultsWith(i, <<category, year>>) ) =>
                           resp'.status = 404 /\ dbVars' = dbVars
                  /\ \A id \in IdParams :
                        (Absent(documents, id) /\ GetDocumentsWith(i, <<id>>)) =>
                           resp'.status = 404 /\ dbVars' = dbVars
                  /\ \A token \in Tokens(clock), id \in IdParams :
                        (authenticateToken(token, clock) = 0 /\ Absent(results, id)) =>
                           \A file \in {f \in PutFiles : upload("image", f) = "next"},
                              category \in Categories \cup {Undefined},
                              year \in Years \cup {Undefined},
                              description \in PutDescriptions \cup {Undefined} :
                              PutResultsWith(i, token, id, file, category, year,
                                             description) =>
                                 /\ reqs'[i].op = "put_results" \/ resp'.status = 404
                                 /\ dbVars' = dbVars
                  /\ \A token \in Tokens(clock), id \in IdParams :
                        (authenticateToken(token, clock) = 0 /\ Absent(documents, id)) =>
                           \A file \in {f \in PutDocumentFiles : upload("file", f) = "next"},
                              title \in PutTitles \cup {Undefined},
                              category \in DocumentCategories \cup {Undefined},
                              description \in DocumentDescriptions \cup {Undefined} :
                              PutDocumentsWith(i, token, id, file, title, category,
                                               description) =>
                                 /\ reqs'[i].op = "put_documents" \/ resp'.status = 404
                                 /\ dbVars' = dbVars
            /\ ( /\ reqs[i].op \in {"put_results", "delete_results"}
                 /\ Absent(results, reqs[i].id)
                 /\ PutResultsExecute(i) \/ DeleteResultsSelect(i) ) =>
                  resp'.status = 404 /\ dbVars' = dbVars
            /\ ( /\ reqs[i].op \in {"put_documents", "delete_documents"}
                 /\ Absent(documents, reqs[i].id)
                 /\ PutDocumentsExecute(i) \/ DeleteDocumentsSelect(i) ) =>
                  resp'.status = 404 /\ dbVars' = dbVars]_vars


\* the UPDATE that the PUT in slot i awaits would give the row of its id the
\* (category, year) pair of another row
PutConflicts(i) ==
    /\ reqs[i].op = "put_results"
    /\ \E old \in results :
         /\ old.id = ParseId(reqs[i].id)
         /\ \E other \in results \ {old} :
              KeyOf(other) = <<reqs[i].category, reqs[i].year>>

\* C20: when the UPDATE of an authenticated PUT /api/results/:id would give the
\* row a (category, year) pair that another row holds, the statement fails, the
\* request is answered 500 and is over (its slot is idle again and no statement
\* is sent a second time), and every row of every table is as it was.
C20_PutConflictFails ==
    [][\A i \in 1..MaxReq :
         (PutConflicts(i) /\ PutResultsExecute(i)) =>
            /\ resp' = Response("put_results", 500, 0)
            /\ reqs' = [reqs EXCEPT ![i] = IdleReq]
            /\ served' = served
            /\ dbVars' = dbVars]_vars

\* a PUT that would have moved one of two rows onto the key of the other was
\* answered 500 as the last of the requests, and nothing is left in flight
C20_Witness ==
    /\ resp = Response("put_results", 500, 0)
    /\ resultsLayout = "new"
    /\ \E r, q \in results : r # q
    /\ served = MaxRequests
    /\ \A i \in 1..MaxReq : reqs[i].op = "idle"


Ids(rows) == {r.id : r \in rows}

\* C21: when the INSERT of an authenticated POST /api/documents runs against the
\* BLOB layout, the request is answered 200, table documents has exactly one
\* row more, the new row carries the fields of the request and an id that no
\* row holds and no deleted row held, every row that was there is still there
\* unmodified, whether or not one of them has the same title, category and file,
\* and table results is as it was.
C21_PostDocumentAppends ==
    [][\A i \in 1..MaxReq :
         ( /\ reqs[i].op = "post_documents"
           /\ documentsLayout = "new"
           /\ PostDocumentsExecute(i) ) =>
            /\ resp' = Response("post_documents", 200, 1)
            /\ documents \subseteq documents'
            /\ Cardinality(documents') = Cardinality(documents) + 1
            /\ \A new \in documents' \ documents :
                  /\ new.id \notin Ids(documents) \cup deleted.documents
                  /\ new.title = reqs[i].title
                  /\ new.category = reqs[i].category
                  /\ new.file_data = reqs[i].file.buffer
                  /\ new.description = reqs[i].description
            /\ results' = results]_vars

\* two documents with the same title, category and file are stored under
\* different ids
C21_Witness ==
    \E r, q \in documents :
       /\ r.id # q.id
       /\ r.title = q.title
       /\ r.category = q.category
       /\ r.file_data = q.file_data


\* row new has the columns of row old, with the same values in all but fields
Kept(old, new, fields) ==
    /\ DOMAIN new = DOMAIN old
    /\ \A f \in DOMAIN old \ fields : new[f] = old[f]

WholeResults(rows) ==
    \A r \in rows :
       \E f \in Files :
          /\ r.image_data = f.buffer
          /\ r.image_filename = f.originalname
          /\ r.image_mimetype = f.mimetype

WholeDocuments(rows) ==
    \A r \in rows :
       \E f \in {PdfFile, PdfTwo} :
          /\ r.file_data = f.buffer
          /\ r.file_filename = f.originalname
          /\ r.file_mimetype = f.mimetype

\* C23: an id enters table results or documents only in the step in which the
\* INSERT of a POST on that table is answered 200; the UPDATE of a PUT adds no
\* id, and for an id that no row holds, deleted before or never used, it leaves
\* the table as it was and is not answered 200; and the rows a read finds in the
\* BLOB layout are whole: each carries the payload, filename and MIME type
\* of one file.
C23_RecordLife ==
    [][/\ Ids(results') \ Ids(results) # {} =>
             \E i \in 1..MaxReq :
                /\ reqs[i].op = "post_results"
                /\ reqs'[i].op = "idle"
                /\ resp' = Response("post_results", 200, 1)
       /\ Ids(documents') \ Ids(documents) # {} =>
             \E i \in 1..MaxReq :
                /\ reqs[i].op = "post_documents"
                /\ reqs'[i].op = "idle"
                /\ resp' = Response("post_documents", 200, 1)
       /\ \A i \in 1..MaxReq :
             /\ (reqs[i].op = "put_results" /\ PutResultsExecute(i)) =>
                   /\ Ids(results') = Ids(results)
                   /\ Absent(results, reqs[i].id) =>
                         results' = results /\ resp'.status # 200
             /\ (reqs[i].op = "put_documents" /\ PutDocumentsExecute(i)) =>
                   /\ Ids(documents') = Ids(documents)
                   /\ Absent(documents, reqs[i].id) =>
                         documents' = documents /\ resp'.status # 200
       /\ resultsLayout = "new" => WholeResults(results) /\ WholeResults(results')
       /\ documentsLayout = "new" => WholeDocuments(documents) /\ WholeDocuments(documents')]_vars

\* a row was deleted, a later PUT found no row under its id and was answered
\* 404, and the table is still empty
C23_Witness ==
    /\ resp = Response("put_results", 404, 0)
    /\ deleted.results # {}
    /\ results = {}


\* C24: the admin table changes only in the INSERT of initializeTables, which
\* runs only when the count of the table was 0 and then adds exactly the row of
\* user admin with the hash of the configured password; a startup that finds a
\* row goes on without a write; so over all startups the table holds at most
\* one row of user admin and no row that was there is changed or removed.
C24_BootstrapAdmin ==
    [][/\ (pc = "init_admin_count" /\ pc' = "init_admin_insert") => adminUsers = {}
       /\ (pc = "init_admin_count" /\ pc' = "init_done") => adminUsers # {}
       /\ (pc = "init_admin_insert" /\ pc' = "init_done") =>
             adminUsers = {} /\ adminUsers' = {AdminRow}
       /\ adminUsers' # adminUsers => pc = "init_admin_insert" /\ pc' = "init_done"
       /\ adminUsers \subseteq adminUsers'
       /\ Cardinality({u \in adminUsers' : u.username = "admin"}) <= 1
       /\ AdminRow.password_hash = hashSync(AdminPassword)]_vars

\* a second startup found the admin row of the first and has come to listen with
\* the table as it was
C24_Witness ==
    /\ runNo = 2
    /\ pc = "listening"
    /\ adminUsers = {AdminRow}


(***************************************************************************)
(* The lists.  GET /api/results and GET /api/documents send the rows their *)
(* SELECT returns; here the response keeps them, and the tables are any    *)
(* sets of up to MaxRows rows that POSTs, PUTs and DELETEs can have left.  *)
(***************************************************************************)
\* the k-th row of results: the pairs of two years and two categories, in an
\* order of ids that is not the order of the list
ListRow(k) ==
    [id |-> k,
     category |-> CategoryOrder[((k - 1) % 2) + 1],
     year |-> YearOrder[(((k - 1) \div 2) % 2) + 1],
     image_data |-> FileOne.buffer, image_filename |-> FileOne.originalname,
     image_mimetype |-> FileOne.mimetype, description |-> "A",
     created_at |-> 0, updated_at |-> 0]

\* the k-th row of documents: rows created at different times and at the same
ListDocumentRow(k) ==
    [id |-> k, title |-> "Pravilnik", category |-> "general",
     file_data |-> PdfFile.buffer, file_filename |-> PdfFile.originalname,
     file_mimetype |-> PdfFile.mimetype, description |-> "A",
     created_at |-> (k \div 2) % (MaxClock + 1),
     updated_at |-> MaxClock]

InitList ==
    /\ pc = "listening" /\ runNo = 1 /\ clock = MaxClock
    /\ migrationError = "none" /\ faults = 0 /\ migrationDDL = FALSE
    /\ resultsLayout = "new" /\ documentsLayout = "new"
    /\ resultsNew = FALSE /\ documentsNew = FALSE
    /\ results \in SUBSET {ListRow(k) : k \in 1..MaxRows}
    /\ documents \in SUBSET {ListDocumentRow(k) : k \in 1..MaxRows}
    /\ resultsAutoInc = MaxRows + 1 /\ documentsAutoInc = MaxRows + 1
    /\ adminTable = TRUE /\ adminUsers = {AdminRow}
    /\ reqs = [i \in 1..MaxReq |-> IdleReq]
    /\ served = 0
    /\ resp = NoResponse
    /\ deleted = NoneDeleted

\* GET /api/results: res.json(rows)
GetResultsList(i) ==
    /\ Free(i)
    /\ LET answer == Get(<<>>)
       IN  resp' = [handler |-> Dispatch("GET", <<>>), status |-> answer.status,
                    affectedRows |-> 0, error |-> "", body |-> answer.body]
    /\ served' = served + 1
    /\ UNCHANGED <<pc, runNo, faults, migrationError, migrationDDL, dbVars, clock,
                   reqs, deleted>>

\* GET /api/documents: res.json(rows)
GetDocumentsList(i) ==
    /\ Free(i)
    /\ \E answer \in GetDocument(<<>>) :
         resp' = [handler |-> DispatchDocuments("GET", <<>>), status |-> answer.status,
                  affectedRows |-> 0, error |-> "", body |-> answer.body]
    /\ served' = served + 1
    /\ UNCHANGED <<pc, runNo, faults, migrationError, migrationDDL, dbVars, clock,
                   reqs, deleted>>

NextList == \E i \in 1..MaxReq : GetResultsList(i) \/ GetDocumentsList(i)

SpecList == InitList /\ [][NextList]_vars

\* C25: the body of a 200 response to GET /api/results holds every row of table
\* results exactly once, a later year before an earlier one and, within a
\* year, the categories in ascending order; the body of a 200 response to GET
\* /api/documents holds every row of table documents exactly once and no row
\* before one that was created later.
C25_ListsCompleteAndOrdered ==
    /\ (resp.handler = "get_results" /\ resp.status = 200) =>
          /\ Len(resp.body) = Cardinality(results)
          /\ \A r \in results :
                /\ Cardinality({k \in DOMAIN resp.body : resp.body[k].id = r.id}) = 1
                /\ \E k \in DOMAIN resp.body : resp.body[k] = Listed(r)
          /\ \A k, m \in DOMAIN resp.body :
                k < m =>
                   \/ Position(YearOrder, resp.body[k].year)
                         > Position(YearOrder, resp.body[m].year)
                   \/ /\ resp.body[k].year = resp.body[m].year
                      /\ Position(CategoryOrder, resp.body[k].category)
                            < Position(CategoryOrder, resp.body[m].category)
    /\ (resp.handler = "get_documents" /\ resp.status = 200) =>
          /\ Len(resp.body) = Cardinality(documents)
          /\ \A r \in documents :
                /\ Cardinality({k \in DOMAIN resp.body : resp.body[k].id = r.id}) = 1
                /\ \E k \in DOMAIN resp.body : resp.body[k] = ListedDocument(r)
          /\ \A k, m \in DOMAIN resp.body :
                k < m => resp.body[k].created_at >= resp.body[m].created_at

\* the list of results was sent with rows of two years and of two categories of
\* one year, from a store whose documents were created at different times
C25_Witness ==
    /\ resp.handler = "get_results"
    /\ resp.status = 200
    /\ Len(resp.body) >= 3
    /\ \E k, m \in DOMAIN resp.body : resp.body[k].year # resp.body[m].year
    /\ \E r, q \in documents : r.created_at # q.created_at


\* C26 as stated: every GET /api/results/{id}/image the server answers is
\* answered by the image handler, and none by the category/year lookup.
C26_ImageRouteFirst ==
    [][\A i \in 1..MaxReq, id \in IdParams :
          GetResultsWith(i, <<id, "image">>) =>
             /\ Dispatch("GET", <<id, "image">>) = "get_results_image"
             /\ resp'.handler = "get_results_image"]_vars


\* C27 as stated: of the DELETE requests for one id of table results, or of
\* table documents, that are in progress together, one answers 200 and the
\* others 404: no DELETE answers 200 for an id for which another DELETE has
\* already answered 200.
C27_OneDeleteSucceeds ==
    [][\A i \in 1..MaxReq :
          /\ (reqs[i].op = "delete_results" /\ DeleteResultsDelete(i)) =>
                ParseId(reqs[i].id) \notin deleted.results
          /\ (reqs[i].op = "delete_documents" /\ DeleteDocumentsDelete(i)) =>
                ParseId(reqs[i].id) \notin deleted.documents]_vars


\* the rows of rows under another id than that of parameter id
OtherIds(rows, id) == {r \in rows : r.id # ParseId(id)}

\* C28: the statement of a POST /api/results leaves every row of results with
\* another (category, year) as it was, the statement of a PUT or DELETE
\* /api/results/:id every row of results with another id, and each leaves table
\* documents as it was; the statement of a POST /api/documents leaves every row
\* documents held as it was, the statement of a PUT or DELETE
\* /api/documents/:id every row of documents with another id, and each leaves
\* table results as it was.
C28_OthersUntouched ==
    [][\A i \in 1..MaxReq :
         /\ (reqs[i].op = "post_results" /\ PostResultsExecute(i)) =>
               /\ {r \in results' : KeyOf(r) # <<reqs[i].category, reqs[i].year>>}
                     = {r \in results : KeyOf(r) # <<reqs[i].category, reqs[i].year>>}
               /\ documents' = documents
         /\ ( /\ reqs[i].op \in {"put_results", "delete_results"}
              /\ \/ PutResultsExecute(i)
                 \/ DeleteResultsSelect(i)
                 \/ DeleteResultsDelete(i) ) =>
               /\ OtherIds(results', reqs[i].id) = OtherIds(results, reqs[i].id)
               /\ documents' = documents
         /\ (reqs[i].op = "post_documents" /\ PostDocumentsExecute(i)) =>
               /\ documents \subseteq documents'
               /\ results' = results
         /\ ( /\ reqs[i].op \in {"put_documents", "delete_documents"}
              /\ \/ PutDocumentsExecute(i)
                 \/ DeleteDocumentsSelect(i)
                 \/ DeleteDocumentsDelete(i) ) =>
               /\ OtherIds(documents', reqs[i].id) = OtherIds(documents, reqs[i].id)
               /\ results' = results]_vars

\* a POST has updated the row of its (category, year) while the table held a
\* row of another pair, which is as it was stored
C28_Witness ==
    /\ resp = Response("post_results", 200, 2)
    /\ \E r, q \in results :
          /\ r.id # q.id
          /\ r.updated_at > r.created_at
          /\ q.updated_at = q.created_at


(***************************************************************************)
(* The form fields.  A text field that a multipart form sends empty reaches *)
(* the handler as the empty string; here authenticated POSTs and PUTs      *)
(* carry fields that are filled or empty, and an acceptable file or none.   *)
(***************************************************************************)
\* an authenticated POST or PUT whose form fields are filled or empty
Fields(i) ==
    /\ Free(i)
    /\ \E token \in Tokens(clock) :
         /\ authenticateToken(token, clock) = 0
         /\ \/ \E category \in Categories \cup {""}, year \in Years \cup {""} :
                 \/ PostResultsWith(i, token, FileOne, category, year, "A")
                 \/ \E id \in IdParams, file \in {FileTwo, NoFile} :
                       PutResultsWith(i, token, id, file, category, year, "B")
            \/ \E title \in Titles \cup {""}, category \in DocumentCategories \cup {""} :
                 \/ PostDocumentsWith(i, token, PdfFile, title, category, "A")
                 \/ \E id \in IdParams, file \in {PdfTwo, NoFile} :
                       PutDocumentsWith(i, token, id, file, title, category, "A")

NextFields ==
    \/ Tick
    \/ \E i \in 1..MaxReq :
          \/ Fields(i)
          \/ PostResultsExecute(i)
          \/ PutResultsExecute(i)
          \/ PostDocumentsExecute(i)
          \/ PutDocumentsExecute(i)

SpecFields == InitServe /\ [][NextFields]_vars

\* C29 as stated, for the tables of the BLOB layout: every row of results has a
\* category and a year that are not empty and a payload, and every row of
\* documents a title and a category that are not empty and a payload, whatever
\* POSTs and PUTs have been served.
C29_FieldsNeverEmpty ==
    /\ resultsLayout = "new" =>
          \A r \in results :
             r.category # "" /\ r.year # "" /\ r.image_data # NoFile.buffer
    /\ documentsLayout = "new" =>
          \A r \in documents :
             r.title # "" /\ r.category # "" /\ r.file_data # NoFile.buffer


\* positions of the process inside the results part of migrateTables
MigrateResultsPcs ==
    {"mig_results_columns", "mig_results_create", "mig_results_drop",
     "mig_results_rename"}

\* C30 as stated: when a statement of the results migration fails, the same
\* startup goes on to inspect the columns of table documents.
C30_MigrationsIndependent ==
    [][(pc \in MigrateResultsPcs /\ migrationError' # migrationError) =>
          pc' = "mig_documents_columns"]_vars

=============================================================================
